---- MODULE Spec2Model ----
(***************************************************************************)
(* The display model of lib/igt_kms.c: pipes, planes and outputs, the     *)
(* per-resource dirty flags set by the mutators, and the commit engine    *)
(* (legacy, universal-plane and atomic) that turns the dirty state into   *)
(* driver calls.  The driver is the environment: every call it is given   *)
(* may succeed or fail, and what it was given successfully is kept in     *)
(* drv_plane / drv_crtc / drv_conn / blobs.                               *)
(***************************************************************************)
EXTENDS Integers, Sequences, FiniteSets, TLC

(* ------------------------------------------------------------------ *)
(* Hardware reported at igt_display_init, and the bound of a run       *)
(* ------------------------------------------------------------------ *)

\* display->n_pipes = resources->count_crtcs
n_pipes == 2

\* display->n_outputs = resources->count_connectors
n_outputs == 2

\* pipe->n_planes: a primary, one overlay and a cursor plane per pipe
n_planes == 3

\* Number of library calls (mutators and commits) in one run
MaxOps == 3
MaxPlaneOps == 5

\* Number of calls on one CRC capture session, and the largest n_crcs a test
\* asks igt_pipe_crc_get_crcs for
MaxCrcOps == 4
MaxCrcs == 2

\* Places of the crc[] array of an igt_crc_t (DRM_MAX_CRC_NR, scaled down)
MaxWords == 2

\* Steps of one run of a test with subtests, the longest deadline a test arms
\* (seconds) and the depth to which igt_subtest_group blocks nest
MaxCoreOps == 6
MaxSeconds == 2
MaxGroups == 1

\* Steps of one run of a test function that waits for flip events, and the
\* number of vblanks the driver counts during it
MaxFlipOps == 10
MaxVblank == 3

\* Steps of one run of a test that forks a helper, and the flips its parent
\* issues in one iteration (60 in the test)
MaxForkOps == 13
MaxFlips == 2

\* Refreshes of one output after igt_display_init
MaxRefreshes == 4

\* Overlay planes the driver reports for one pipe, and the igt_pipe_get_plane
\* calls of one run
MaxOverlays == 2
MaxGetPlanes == 2

\* igt_output_set_pipe calls before the commit of a run on given hardware
MaxSetPipes == 3

\* The largest hdisplay and vdisplay of the mode, and the largest cursor
\* size the driver reports, of the sprite-size search
MaxMode == 4
MaxCursor == 2

\* opt.iterations of the plane position test
MaxIterations == 2

\* Children forked between two calls of igt_waitchildren
MaxChildren == 2

\* The driver call of a commit that fails is one of its first MaxFailAt calls
MaxFailAt == 2

PIPE_NONE == -1

Pipes == 0 .. (n_pipes - 1)
Outputs == 0 .. (n_outputs - 1)
Slots == 0 .. (n_planes - 1)
PlaneIds == Pipes \X Slots

IGT_PLANE_PRIMARY == 0

\* enum igt_plane: IGT_PLANE_1 .. IGT_PLANE_9, then IGT_PLANE_CURSOR
IGT_PLANE_CURSOR == 9

\* plane->is_primary / plane->is_cursor as igt_display_init leaves them
is_primary(i) == i = IGT_PLANE_PRIMARY
is_cursor(i) == i = n_planes - 1

\* plane->rotation_property: the cursor plane of this hardware exposes no
\* "rotation" property, the other planes do (property id 0 means absent)
rotation_property(i) == IF is_cursor(i) THEN 0 ELSE 7

\* encoder->possible_crtcs of the connector's encoders, as a set of pipes
valid_crtc_idx_mask(o) == Pipes

\* The framebuffers test code hands in: 0 is the null framebuffer
NoFb == [fb_id |-> 0, gem_handle |-> 0, width |-> 0, height |-> 0]
TheFb == [fb_id |-> 1, gem_handle |-> 1, width |-> 2, height |-> 2]
Fbs == {NoFb, TheFb}

\* The planes the test code calls the mutators on: every plane of the first
\* pipe and the primary plane of the other pipes
TestPlanes == {id \in PlaneIds : id[1] = 0 \/ is_primary(id[2])}

\* The plane kinds test code asks igt_output_get_plane for: the primary
\* plane, the kinds n_planes - 1 and n_planes, and the cursor
PlaneKinds == {IGT_PLANE_PRIMARY, n_planes - 1, n_planes, IGT_PLANE_CURSOR}

\* Arguments the test code passes to the mutators
Positions == {<<1, 2>>}
Sizes == {<<3, 4>>}
Rotations == {180}
Backgrounds == {5}
ScalingModes == {1}
BlobKinds == {"degamma", "ctm", "gamma"}
BlobLengths == {8}

\* Modes: the connector's preferred mode and the mode tests override with
DefaultModeOf(o) == "preferred"
OverrideModes == {"custom"}

\* Error code a failing driver call returns (-EINVAL)
EINVAL_NEG == -22

VARIABLES planes, pipes, outputs, pipes_in_use, is_atomic,
          drv_plane, drv_crtc, drv_conn, blobs,
          crc, core, test, calls, last, nops

vars == <<planes, pipes, outputs, pipes_in_use, is_atomic,
          drv_plane, drv_crtc, drv_conn, blobs, crc, core, test,
          calls, last, nops>>

model_vars == <<planes, pipes, outputs, pipes_in_use, is_atomic>>
drv_vars == <<drv_plane, drv_crtc, drv_conn, blobs>>

(* ------------------------------------------------------------------ *)
(* Small helpers                                                       *)
(* ------------------------------------------------------------------ *)

Min(S) == CHOOSE x \in S : \A y \in S : x <= y
Max(S) == CHOOSE x \in S : \A y \in S : y <= x

\* ffs(mask) - 1 on a non-empty mask
ffs_minus_1(mask) == Min(mask)

\* IGT_FIXED(i, 0): 16.16 fixed point in a uint32_t, (i << 16) mod 2^32
IGT_FIXED(i) == (i % 65536) * 65536

RECURSIVE Flatten(_)
Flatten(ss) == IF ss = <<>> THEN <<>> ELSE Head(ss) \o Flatten(Tail(ss))

(* ------------------------------------------------------------------ *)
(* State after igt_display_init                                        *)
(* ------------------------------------------------------------------ *)

\* drm_plane: the drmModePlane object of the slot is held
InitPlane ==
    [drm_plane |-> TRUE,
     fb |-> NoFb,
     crtc_x |-> 0, crtc_y |-> 0, crtc_w |-> 0, crtc_h |-> 0,
     src_x |-> 0, src_y |-> 0, src_w |-> 0, src_h |-> 0,
     rotation |-> 0,
     fb_changed |-> TRUE, position_changed |-> FALSE,
     size_changed |-> FALSE, rotation_changed |-> FALSE]

InitPipe ==
    [mode_changed |-> TRUE, color_mgmt_changed |-> FALSE,
     background_changed |-> FALSE, background |-> 0,
     mode_blob |-> 0, degamma_blob |-> 0, ctm_blob |-> 0, gamma_blob |-> 0,
     enabled |-> FALSE]

InitOutput(o) ==
    [pending_crtc_idx_mask |-> {},
     pipe |-> PIPE_NONE, pipe_changed |-> TRUE,
     connector_scaling_mode_changed |-> FALSE, connector_scaling_mode |-> 0,
     default_mode |-> DefaultModeOf(o),
     use_override_mode |-> FALSE, override_mode |-> "none",
     config_objs |-> {"connector"}]

\* What the driver holds for a plane, a CRTC and a connector
InitDrvPlane == [fb |-> 0, crtc_x |-> 0, crtc_y |-> 0, crtc_w |-> 0, crtc_h |-> 0,
                 rotation |-> 0]
InitDrvCrtc == [mode |-> "none", active |-> 0, background |-> 0]
InitDrvConn == [crtc_id |-> 0, scaling_mode |-> 0]

NoOp == [op |-> "init"]

\* struct _igt_pipe_crc before igt_pipe_crc_new.  fds is the set of
\* descriptors the session has open, each with what it is open on; capturing is
\* whether the driver computes CRCs for the pipe
CrcNone ==
    [alive |-> FALSE, freed |-> FALSE, is_legacy |-> FALSE, nonblock |-> FALSE,
     ctl_fd |-> -1, crc_fd |-> -1, fds |-> {}, capturing |-> FALSE]

\* The static state of igt_core.c when the test's main starts, for a test with
\* subtests.  alarm is the number of seconds until SIGALRM is delivered (0:
\* no alarm is pending), deadline the seconds left of the latest
\* igt_set_timeout that was not reset, cancelled whether the latest timeout
\* call was a reset that found an alarm pending; status is how the process
\* ended ("running" until then); groups holds what __igt_subtest_group_save stored for the
\* igt_subtest_group blocks that are open, marks what fixtures of the open
\* blocks have failed or skipped
CoreInit ==
    [in_subtest |-> FALSE, in_fixture |-> FALSE, skip_subtests_henceforth |-> "CONT",
     skipped_one |-> FALSE, succeeded_one |-> FALSE, failed_one |-> FALSE,
     igt_exitcode |-> "IGT_EXIT_SUCCESS", status |-> "running",
     alarm |-> 0, deadline |-> 0, cancelled |-> FALSE,
     groups |-> <<>>, marks |-> <<"CONT">>, marked |-> "CONT"]

\* A test function that waits for page-flip events, before it is entered:
\* func is the function and pc the statement it is at; frame is the driver's
\* vblank counter of the pipe, pending the pipes with a flip the driver has
\* not completed, queue the events ready to be read from the DRM descriptor;
\* nread counts the event records read() has returned, flips_only is whether
\* they were all flip-complete records; seen and seen_end are what
\* get_vblank returned after the cursor updates and at the end
TestNone ==
    [func |-> "none", pc |-> "idle", mode |-> "none", event_mask |-> {},
     num_events |-> 0, nread |-> 0, flips_only |-> TRUE,
     vblank_start |-> 0, seen |-> 0, seen_end |-> 0,
     frame |-> 0, pending |-> {}, queue |-> <<>>]

Init ==
    /\ planes = [pl \in PlaneIds |-> InitPlane]
    /\ pipes = [p \in Pipes |-> InitPipe]
    /\ outputs = [o \in Outputs |-> InitOutput(o)]
    /\ pipes_in_use = {}
    /\ is_atomic = TRUE
    /\ drv_plane = [pl \in PlaneIds |-> InitDrvPlane]
    /\ drv_crtc = [p \in Pipes |-> InitDrvCrtc]
    /\ drv_conn = [o \in Outputs |-> InitDrvConn]
    /\ blobs = [b \in {} |-> "none"]
    /\ crc = CrcNone
    /\ core = CoreInit
    /\ test = TestNone
    /\ calls = <<>>
    /\ last = NoOp
    /\ nops = 0

(* ------------------------------------------------------------------ *)
(* Output configuration                                                *)
(* ------------------------------------------------------------------ *)

\* _kmstest_connector_config: the pipe resolved for a connector under a mask
\* of allowed pipes (connector present, connected and with modes)
_kmstest_connector_config(o, crtc_idx_mask) ==
    LET m == crtc_idx_mask \cap valid_crtc_idx_mask(o)
    IN  IF m = {} THEN PIPE_NONE ELSE ffs_minus_1(m)

\* igt_output_refresh: the output record after the refresh.  The config holds
\* the connector, and the encoder and the CRTC when a pipe was found
igt_output_refresh(out, o, final, in_use) ==
    LET mask == IF final THEN out.pending_crtc_idx_mask \ in_use
                ELSE out.pending_crtc_idx_mask
    IN  [out EXCEPT
           !.pipe = _kmstest_connector_config(o, mask),
           !.config_objs = IF _kmstest_connector_config(o, mask) = PIPE_NONE
                           THEN {"connector"}
                           ELSE {"connector", "encoder", "crtc"},
           !.default_mode = IF out.use_override_mode THEN out.override_mode
                            ELSE DefaultModeOf(o)]

\* igt_output_get_driving_pipe: the pending pipe, or PIPE_NONE
igt_output_get_driving_pipe(out) ==
    IF out.pending_crtc_idx_mask = {} THEN PIPE_NONE
    ELSE ffs_minus_1(out.pending_crtc_idx_mask)

\* igt_pipe_get_output: the first output pending on the pipe, or -1
igt_pipe_get_output(outs, p) ==
    LET S == {o \in Outputs : outs[o].pending_crtc_idx_mask = {p}}
    IN  IF S = {} THEN -1 ELSE Min(S)

\* igt_output_get_mode
igt_output_get_mode(out) == out.default_mode

\* igt_pipe_get_plane: the slot of a plane kind; ok is FALSE when the
\* assertion on the kind fails
igt_pipe_get_plane(plane) ==
    IF plane = IGT_PLANE_CURSOR THEN [ok |-> TRUE, idx |-> n_planes - 1]
    ELSE IF plane >= 0 /\ plane < n_planes THEN [ok |-> TRUE, idx |-> plane]
    ELSE [ok |-> FALSE, idx |-> -1]

(* ------------------------------------------------------------------ *)
(* Mutators                                                            *)
(* ------------------------------------------------------------------ *)

Step(rec) ==
    /\ nops' = nops + 1
    /\ last' = rec
    /\ crc' = crc
    /\ core' = core
    /\ test' = test

\* igt_output_set_pipe marking the new pipe only
SetPipeMarkedNewOnly(out, pipe) == IF pipe = PIPE_NONE THEN {} ELSE {pipe}

\* The pipes igt_output_set_pipe marks as mode_changed
SetPipeMarked(out, pipe) ==
    (IF out.pending_crtc_idx_mask # {}
        THEN {igt_output_get_driving_pipe(out)} ELSE {})
    \cup (IF pipe = PIPE_NONE THEN {} ELSE {pipe})

\* The pending mask igt_output_set_pipe records
SetPipeMask(pipe) == IF pipe = PIPE_NONE THEN {} ELSE {pipe}

igt_output_set_pipe(o, pipe) ==
    LET out == outputs[o]
        marked == SetPipeMarked(out, pipe)
        out1 == [out EXCEPT
                   !.pending_crtc_idx_mask = SetPipeMask(pipe),
                   !.pipe_changed = IF pipe # out.pipe THEN TRUE ELSE @]
    IN  /\ Step([op |-> "set_pipe", output |-> o, pipe |-> pipe,
                 old |-> igt_output_get_driving_pipe(out)])
        /\ pipes' = [p \in Pipes |->
                       IF p \in marked THEN [pipes[p] EXCEPT !.mode_changed = TRUE]
                       ELSE pipes[p]]
        /\ outputs' = [outputs EXCEPT ![o] = igt_output_refresh(out1, o, FALSE, pipes_in_use)]
        /\ calls' = <<>>
        /\ UNCHANGED <<planes, pipes_in_use, is_atomic, drv_vars>>

igt_output_override_mode(o, mode) ==
    LET out == outputs[o]
        pipe == igt_output_get_driving_pipe(out)
    IN  /\ Step([op |-> "override_mode", output |-> o, mode |-> mode])
        /\ outputs' = [outputs EXCEPT ![o] =
             IF mode # "none"
             THEN [out EXCEPT !.override_mode = mode, !.use_override_mode = TRUE]
             ELSE [out EXCEPT !.default_mode = DefaultModeOf(o),
                              !.use_override_mode = FALSE]]
        /\ pipes' = IF pipe # PIPE_NONE
                    THEN [pipes EXCEPT ![pipe].mode_changed = TRUE]
                    ELSE pipes
        /\ calls' = <<>>
        /\ UNCHANGED <<planes, pipes_in_use, is_atomic, drv_vars>>

igt_output_set_scaling_mode(o, scaling_mode) ==
    /\ Step([op |-> "set_scaling_mode", output |-> o])
    /\ outputs' = [outputs EXCEPT ![o].connector_scaling_mode_changed = TRUE,
                                  ![o].connector_scaling_mode = scaling_mode]
    /\ calls' = <<>>
    /\ UNCHANGED <<planes, pipes, pipes_in_use, is_atomic, drv_vars>>

\* The plane record after igt_plane_set_fb
PlaneSetFb(pl, fb) ==
    IF fb # NoFb
    THEN [pl EXCEPT !.fb = fb,
                    !.crtc_w = fb.width, !.crtc_h = fb.height,
                    !.src_x = 0, !.src_y = 0,
                    !.src_w = fb.width, !.src_h = fb.height,
                    !.fb_changed = TRUE, !.size_changed = TRUE]
    ELSE [pl EXCEPT !.fb = fb,
                    !.src_x = 0, !.src_y = 0, !.src_w = 0, !.src_h = 0,
                    !.crtc_w = 0, !.crtc_h = 0,
                    !.fb_changed = TRUE, !.size_changed = TRUE]

\* The plane record after igt_plane_set_position
PlaneSetPosition(pl, x, y) ==
    [pl EXCEPT !.crtc_x = x, !.crtc_y = y, !.position_changed = TRUE]

\* The plane record after igt_plane_set_size
PlaneSetSize(pl, w, h) ==
    [pl EXCEPT !.crtc_w = w, !.crtc_h = h, !.size_changed = TRUE]

\* igt_plane_set_rotation marking the position as changed too
PlaneSetRotationAndPosition(pl, rotation) ==
    [pl EXCEPT !.rotation = rotation, !.rotation_changed = TRUE,
               !.position_changed = TRUE]

\* The plane record after igt_plane_set_rotation
PlaneSetRotation(pl, rotation) ==
    [pl EXCEPT !.rotation = rotation, !.rotation_changed = TRUE]

\* A plane mutator that programs the framebuffer in the driver at once
PlaneMutatorWriteThrough(rec, id, new) ==
    /\ Step(rec)
    /\ planes' = [planes EXCEPT ![id] = new]
    /\ calls' = <<>>
    /\ drv_plane' = [drv_plane EXCEPT ![id].fb = new.fb.fb_id]
    /\ UNCHANGED <<pipes, outputs, pipes_in_use, is_atomic, drv_crtc, drv_conn, blobs>>

PlaneMutator(rec, id, new) ==
    /\ Step(rec)
    /\ planes' = [planes EXCEPT ![id] = new]
    /\ calls' = <<>>
    /\ UNCHANGED <<pipes, outputs, pipes_in_use, is_atomic, drv_vars>>

igt_plane_set_fb(id, fb) ==
    PlaneMutator([op |-> "set_fb", plane |-> id, fb |-> fb.fb_id],
                 id, PlaneSetFb(planes[id], fb))

igt_plane_set_position(id, x, y) ==
    PlaneMutator([op |-> "set_position", plane |-> id],
                 id, PlaneSetPosition(planes[id], x, y))

igt_plane_set_size(id, w, h) ==
    PlaneMutator([op |-> "set_size", plane |-> id, w |-> w, h |-> h],
                 id, PlaneSetSize(planes[id], w, h))

igt_plane_set_rotation(id, rotation) ==
    PlaneMutator([op |-> "set_rotation", plane |-> id],
                 id, PlaneSetRotation(planes[id], rotation))

igt_crtc_set_background(p, background) ==
    /\ Step([op |-> "set_background", pipe |-> p])
    /\ pipes' = [pipes EXCEPT ![p].background = background,
                              ![p].background_changed = TRUE]
    /\ calls' = <<>>
    /\ UNCHANGED <<planes, outputs, pipes_in_use, is_atomic, drv_vars>>

\* igt_output_get_plane: asserts that the output has a driving pipe, then
\* igt_pipe_get_plane; prev is the call before this one, when that was an
\* igt_output_get_plane that returned a slot
igt_output_get_plane(o, plane) ==
    /\ Step([op |-> "get_plane", output |-> o, kind |-> plane,
             pipe |-> igt_output_get_driving_pipe(outputs[o]),
             outcome |-> IF igt_output_get_driving_pipe(outputs[o]) # PIPE_NONE
                            /\ igt_pipe_get_plane(plane).ok
                         THEN "ret" ELSE "abort",
             slot |-> IF igt_output_get_driving_pipe(outputs[o]) # PIPE_NONE
                      THEN igt_pipe_get_plane(plane).idx ELSE -1,
             prev |-> IF last.op = "get_plane" /\ last.outcome = "ret"
                      THEN [pipe |-> last.pipe, kind |-> last.kind, slot |-> last.slot]
                      ELSE [pipe |-> PIPE_NONE, kind |-> -1, slot |-> -1]])
    /\ calls' = <<>>
    /\ UNCHANGED <<model_vars, drv_vars>>

\* igt_display_fini: igt_pipe_fini frees the plane objects, igt_output_fini
\* the connector configurations
igt_display_fini ==
    /\ Step([op |-> "fini"])
    /\ planes' = [id \in PlaneIds |-> [planes[id] EXCEPT !.drm_plane = FALSE]]
    /\ outputs' = [o \in Outputs |-> [outputs[o] EXCEPT !.config_objs = {}]]
    /\ calls' = <<>>
    /\ UNCHANGED <<pipes, pipes_in_use, is_atomic, drv_vars>>

(* ------------------------------------------------------------------ *)
(* Property blobs                                                      *)
(* ------------------------------------------------------------------ *)

\* The id the driver gives a new blob: the lowest id not alive
NewBlobId(bl) ==
    Min({i \in 1 .. (Cardinality(DOMAIN bl) + 1) : i \notin DOMAIN bl})

BlobCall(name, id) ==
    [call |-> name, pipe |-> PIPE_NONE, slot |-> 0, a |-> [blob_id |-> id], ret |-> 0]

\* drmModeDestroyPropertyBlob, when a blob is held
BlobDestroyed(bl, old) ==
    IF old # 0 THEN [b \in DOMAIN bl \ {old} |-> bl[b]] ELSE bl

\* drmModeCreatePropertyBlob, when there is data: id is 0 when there is none
BlobCreated(bl, id, old, data) ==
    [blobs |-> IF id # 0
               THEN [b \in DOMAIN bl \cup {id} |-> IF b = id THEN data ELSE bl[b]]
               ELSE bl,
     id |-> id,
     log |-> (IF old # 0 THEN <<BlobCall("DestroyPropertyBlob", old)>> ELSE <<>>)
             \o (IF id # 0 THEN <<BlobCall("CreatePropertyBlob", id)>> ELSE <<>>)]

BlobReplaced(bl, old, data, length) ==
    BlobCreated(bl, IF length > 0 THEN NewBlobId(bl) ELSE 0, old, data)

\* igt_pipe_replace_blob: destroy the blob held (if any), create one for the
\* data when length > 0; yields the new blob table, the new id and the calls
igt_pipe_replace_blob(bl, old, data, length) ==
    BlobReplaced(BlobDestroyed(bl, old), old, data, length)

BlobField(kind) == IF kind = "degamma" THEN "degamma_blob"
                   ELSE IF kind = "ctm" THEN "ctm_blob" ELSE "gamma_blob"

\* igt_pipe_set_degamma_lut / igt_pipe_set_ctm_matrix / igt_pipe_set_gamma_lut
LutReplaced(p, kind, r) ==
    /\ Step([op |-> "set_lut", pipe |-> p, kind |-> kind])
    /\ pipes' = [pipes EXCEPT ![p] =
                   [@ EXCEPT ![BlobField(kind)] = r.id,
                             !.color_mgmt_changed = TRUE]]
    /\ blobs' = r.blobs
    /\ calls' = r.log
    /\ UNCHANGED <<planes, outputs, pipes_in_use, is_atomic,
                   drv_plane, drv_crtc, drv_conn>>

igt_pipe_set_lut(p, kind, length) ==
    LutReplaced(p, kind,
        igt_pipe_replace_blob(blobs, pipes[p][BlobField(kind)], kind, length))

(* ------------------------------------------------------------------ *)
(* Pre-commit refresh                                                  *)
(* ------------------------------------------------------------------ *)

\* igt_display_refresh without its assertion
RefreshAssertSkipped(outs) == TRUE

\* The assertion of igt_display_refresh: no two outputs pend on one pipe
RefreshAssertOk(outs) ==
    \A a \in Outputs : \A b \in Outputs :
        (a # b /\ outs[a].pending_crtc_idx_mask # {})
            => outs[a].pending_crtc_idx_mask # outs[b].pending_crtc_idx_mask

\* The loop of igt_display_refresh over the outputs from index o on
RECURSIVE RefreshFrom(_, _, _)
RefreshFrom(o, outs, in_use) ==
    IF o >= n_outputs THEN [outputs |-> outs, pipes_in_use |-> in_use]
    ELSE LET out == igt_output_refresh(outs[o], o, TRUE, in_use)
         IN  RefreshFrom(o + 1, [outs EXCEPT ![o] = out],
                         IF out.pipe = PIPE_NONE THEN in_use
                         ELSE in_use \cup {out.pipe})

\* igt_display_refresh: ok is FALSE when the assertion fails
igt_display_refresh(outs) ==
    IF RefreshAssertOk(outs)
    THEN [ok |-> TRUE] @@ RefreshFrom(0, outs, {})
    ELSE [ok |-> FALSE, outputs |-> outs, pipes_in_use |-> {}]

(* ------------------------------------------------------------------ *)
(* Legacy and universal-plane programming                              *)
(* ------------------------------------------------------------------ *)

\* pipe->crtc_id = resources->crtcs[i]; 0 is no CRTC
crtc_id(p) == p + 1

\* hdisplay x vdisplay of a mode
ModeSize(mode) == IF mode = "preferred" THEN <<8, 6>>
                  ELSE IF mode = "custom" THEN <<4, 3>> ELSE <<0, 0>>

\* A driver call the commit is about to issue; checked says whether the code
\* looks at its return value
CallStep(name, p, i, checked, a) ==
    [k |-> "call", call |-> name, pipe |-> p, slot |-> i, checked |-> checked, a |-> a]

\* An igt_assert on the way
AssertStep(ok, what) == [k |-> "assert", ok |-> ok, what |-> what]

\* A null output dereferenced (igt_output_get_mode(NULL)->hdisplay)
CrashStep == [k |-> "crash"]

\* igt_drm_plane_commit
igt_drm_plane_commit(p, i, pl) ==
    <<AssertStep(rotation_property(i) # 0 \/ ~pl.rotation_changed,
                 "rotation_unsupported")>>
    \o (IF (pl.fb_changed \/ pl.size_changed) /\ pl.fb.fb_id = 0
        THEN <<CallStep("SetPlane", p, i, TRUE,
                 [fb_id |-> 0, crtc_x |-> 0, crtc_y |-> 0, crtc_w |-> 0, crtc_h |-> 0,
                  src_x |-> IGT_FIXED(0), src_y |-> IGT_FIXED(0),
                  src_w |-> IGT_FIXED(0), src_h |-> IGT_FIXED(0)])>>
        ELSE IF pl.fb_changed \/ pl.position_changed \/ pl.size_changed
        THEN <<CallStep("SetPlane", p, i, TRUE,
                 [fb_id |-> pl.fb.fb_id,
                  crtc_x |-> pl.crtc_x, crtc_y |-> pl.crtc_y,
                  crtc_w |-> pl.crtc_w, crtc_h |-> pl.crtc_h,
                  src_x |-> IGT_FIXED(pl.src_x), src_y |-> IGT_FIXED(pl.src_y),
                  src_w |-> IGT_FIXED(pl.src_w), src_h |-> IGT_FIXED(pl.src_h)])>>
        ELSE <<>>)
    \o (IF pl.rotation_changed
        THEN <<CallStep("PlaneSetProperty", p, i, TRUE,
                        [prop |-> "rotation", value |-> pl.rotation])>>
        ELSE <<>>)

\* igt_cursor_commit_legacy
igt_cursor_commit_legacy(p, i, pl) ==
    (IF pl.fb_changed
     THEN IF pl.fb.gem_handle # 0
          THEN <<CallStep("SetCursor", p, i, TRUE,
                   [handle |-> pl.fb.gem_handle, w |-> pl.crtc_w, h |-> pl.crtc_h])>>
          ELSE <<CallStep("SetCursor", p, i, TRUE,
                   [handle |-> 0, w |-> 0, h |-> 0])>>
     ELSE <<>>)
    \o (IF pl.position_changed
        THEN <<CallStep("MoveCursor", p, i, TRUE,
                        [x |-> pl.crtc_x, y |-> pl.crtc_y])>>
        ELSE <<>>)

\* igt_primary_plane_commit_legacy
igt_primary_plane_commit_legacy(p, i, pl, outs) ==
    LET output == igt_pipe_get_output(outs, p)
    IN  <<AssertStep(pl.crtc_x = 0 /\ pl.crtc_y = 0, "primary_windowed"),
          AssertStep(~pl.rotation_changed, "primary_rotated")>>
        \o (IF ~pl.fb_changed /\ ~pl.position_changed /\ ~pl.size_changed
            THEN <<>>
            ELSE IF pl.fb.fb_id # 0
            THEN IF output = -1
                 THEN <<CrashStep>>
                 ELSE <<CallStep("SetCrtc", p, i, TRUE,
                          [fb_id |-> pl.fb.fb_id, x |-> pl.src_x, y |-> pl.src_y,
                           output |-> output,
                           mode |-> igt_output_get_mode(outs[output])])>>
            ELSE <<CallStep("SetCrtc", p, i, TRUE,
                     [fb_id |-> 0, x |-> 0, y |-> 0, output |-> -1,
                      mode |-> "none"])>>)

\* igt_plane_commit taking the universal-plane path whatever the style
igt_plane_commit_universal(p, i, pl, outs, s) == igt_drm_plane_commit(p, i, pl)

\* igt_plane_commit
igt_plane_commit(p, i, pl, outs, s) ==
    IF is_cursor(i) /\ s = "LEGACY" THEN igt_cursor_commit_legacy(p, i, pl)
    ELSE IF is_primary(i) /\ s = "LEGACY"
    THEN igt_primary_plane_commit_legacy(p, i, pl, outs)
    ELSE igt_drm_plane_commit(p, i, pl)

\* igt_crtc_set_property: the return value of the driver call is dropped
igt_crtc_set_property(p, prop, value) ==
    CallStep("CrtcSetProperty", p, 0, FALSE, [prop |-> prop, value |-> value])

\* igt_pipe_commit: what the commit of one pipe attempts, in order
igt_pipe_commit(p, pls, pps, outs, s) ==
    (IF pps[p].background_changed
     THEN <<igt_crtc_set_property(p, "background", pps[p].background)>>
     ELSE <<>>)
    \o (IF pps[p].color_mgmt_changed
        THEN <<igt_crtc_set_property(p, "degamma", pps[p].degamma_blob),
               igt_crtc_set_property(p, "ctm", pps[p].ctm_blob),
               igt_crtc_set_property(p, "gamma", pps[p].gamma_blob)>>
        ELSE <<>>)
    \o Flatten([i \in 1 .. n_planes |->
                  igt_plane_commit(p, i - 1, pls[<<p, i - 1>>], outs, s)])

\* The loop of do_display_commit over the pipes
PipeLoop(pls, pps, outs, s) ==
    Flatten([q \in 1 .. n_pipes |-> igt_pipe_commit(q - 1, pls, pps, outs, s)])

LogEntry(st, r) ==
    [call |-> st.call, pipe |-> st.pipe, slot |-> st.slot, a |-> st.a, ret |-> r]

\* CHECK_RETURN(r, fail): TRUE when the macro lets the code continue
CheckReturnContinues(r, checked) == ~(checked /\ r # 0)

\* The number of driver calls among the first n steps
CallNo(steps, n) == Cardinality({m \in 1 .. n : steps[m].k = "call"})

\* What the driver call of step n returns: fail_at is the number of the driver
\* call that returns an error (0: none)
StepRet(steps, n, fail_at) ==
    IF CallNo(steps, n) = fail_at THEN EINVAL_NEG ELSE 0

\* The commit does not get past step n: a failed assertion, a crash, or a
\* failing call whose return value CHECK_RETURN sees
StepStops(steps, n, fail_at) ==
    \/ steps[n].k = "assert" /\ ~steps[n].ok
    \/ steps[n].k = "crash"
    \/ /\ steps[n].k = "call"
       /\ ~CheckReturnContinues(StepRet(steps, n, fail_at), steps[n].checked)

\* The first step the commit does not get past; Len(steps) + 1 when there is none
StopAt(steps, fail_at) ==
    Min({n \in 1 .. Len(steps) : StepStops(steps, n, fail_at)} \cup {Len(steps) + 1})

IsCallStep(st) == st.k = "call"

\* The driver calls issued by the steps up to step k, with what they returned
CallsUpTo(steps, k, fail_at) ==
    [m \in 1 .. CallNo(steps, k) |->
        LogEntry(SelectSeq(SubSeq(steps, 1, k), IsCallStep)[m],
                 IF m = fail_at THEN EINVAL_NEG ELSE 0)]

RunStopped(steps, k, fail_at, fail_on_error) ==
    IF k > Len(steps)
    THEN [outcome |-> "done", ret |-> 0,
          log |-> CallsUpTo(steps, Len(steps), fail_at), what |-> "none"]
    ELSE IF steps[k].k = "assert"
    THEN [outcome |-> "abort", ret |-> 0,
          log |-> CallsUpTo(steps, k, fail_at), what |-> steps[k].what]
    ELSE IF steps[k].k = "crash"
    THEN [outcome |-> "crash", ret |-> 0,
          log |-> CallsUpTo(steps, k, fail_at), what |-> "null_output"]
    ELSE IF fail_on_error
    THEN [outcome |-> "abort", ret |-> StepRet(steps, k, fail_at),
          log |-> CallsUpTo(steps, k, fail_at), what |-> "check_return"]
    ELSE [outcome |-> "ret", ret |-> StepRet(steps, k, fail_at),
          log |-> CallsUpTo(steps, k, fail_at), what |-> "none"]

\* Runs the steps in order and stops at the first one the commit does not
\* get past
RunSteps(steps, fail_at, fail_on_error) ==
    RunStopped(steps, StopAt(steps, fail_at), fail_at, fail_on_error)

NumCalls(steps) == Cardinality({n \in 1 .. Len(steps) : steps[n].k = "call"})

(* ------------------------------------------------------------------ *)
(* What the driver keeps of the calls that succeeded                   *)
(* ------------------------------------------------------------------ *)

Drv == [plane |-> drv_plane, crtc |-> drv_crtc, conn |-> drv_conn]

ApplyCall(d, e) ==
    IF e.ret # 0 THEN d
    ELSE IF e.call = "SetCrtc"
    THEN [plane |-> [d.plane EXCEPT ![<<e.pipe, e.slot>>] =
                       [@ EXCEPT !.fb = e.a.fb_id, !.crtc_x = 0, !.crtc_y = 0,
                                 !.crtc_w = ModeSize(e.a.mode)[1],
                                 !.crtc_h = ModeSize(e.a.mode)[2]]],
          crtc |-> [d.crtc EXCEPT ![e.pipe] =
                       [@ EXCEPT !.mode = e.a.mode,
                                 !.active = IF e.a.mode = "none" THEN 0 ELSE 1]],
          conn |-> IF e.a.output = -1 THEN d.conn
                   ELSE [d.conn EXCEPT ![e.a.output].crtc_id = crtc_id(e.pipe)]]
    ELSE IF e.call = "SetCursor"
    THEN [d EXCEPT !.plane[<<e.pipe, e.slot>>] =
            [@ EXCEPT !.fb = e.a.handle, !.crtc_w = e.a.w, !.crtc_h = e.a.h]]
    ELSE IF e.call = "MoveCursor"
    THEN [d EXCEPT !.plane[<<e.pipe, e.slot>>] =
            [@ EXCEPT !.crtc_x = e.a.x, !.crtc_y = e.a.y]]
    ELSE IF e.call = "SetPlane"
    THEN [d EXCEPT !.plane[<<e.pipe, e.slot>>] =
            [@ EXCEPT !.fb = e.a.fb_id, !.crtc_x = e.a.crtc_x, !.crtc_y = e.a.crtc_y,
                      !.crtc_w = e.a.crtc_w, !.crtc_h = e.a.crtc_h]]
    ELSE IF e.call = "PlaneSetProperty"
    THEN [d EXCEPT !.plane[<<e.pipe, e.slot>>].rotation = e.a.value]
    ELSE IF e.call = "CrtcSetProperty" /\ e.a.prop = "background"
    THEN [d EXCEPT !.crtc[e.pipe].background = e.a.value]
    ELSE d

RECURSIVE ApplyLog(_, _)
ApplyLog(d, log) ==
    IF log = <<>> THEN d ELSE ApplyLog(ApplyCall(d, Head(log)), Tail(log))

\* primary->pipe->enabled = (fb_id != 0) after a set-CRTC call that succeeded
EnabledAfter(pps, log) ==
    [p \in Pipes |->
       LET S == {n \in 1 .. Len(log) :
                   log[n].call = "SetCrtc" /\ log[n].pipe = p /\ log[n].ret = 0}
       IN  IF S = {} THEN pps[p]
           ELSE [pps[p] EXCEPT !.enabled = (log[Min(S)].a.fb_id # 0)]]

(* ------------------------------------------------------------------ *)
(* Clearing the dirty flags                                            *)
(* ------------------------------------------------------------------ *)

\* display_commit_changed leaving every rotation_changed as it is
ClearsRotationNever(s, i) == FALSE

\* Whether display_commit_changed clears rotation_changed of a plane
ClearsRotation(s, i) == s # "LEGACY" \/ ~(is_primary(i) \/ is_cursor(i))

\* display_commit_changed clearing mode_changed and pipe_changed in every style
ClearsModeAlways(s) == TRUE

\* Whether display_commit_changed clears mode_changed and pipe_changed
ClearsMode(s) == s # "UNIVERSAL"

\* display_commit_changed leaving fb_changed of every plane as it is
display_commit_changed_keeps_fb(pls, pps, outs, s) ==
    [planes |-> [id \in PlaneIds |->
                   [pls[id] EXCEPT
                      !.position_changed = FALSE,
                      !.size_changed = FALSE,
                      !.rotation_changed = IF ClearsRotation(s, id[2]) THEN FALSE ELSE @]],
     pipes |-> [p \in Pipes |->
                   [pps[p] EXCEPT
                      !.color_mgmt_changed = FALSE,
                      !.background_changed = FALSE,
                      !.mode_changed = IF ClearsMode(s) THEN FALSE ELSE @]],
     outputs |-> [o \in Outputs |->
                   [outs[o] EXCEPT
                      !.pipe_changed = IF ClearsMode(s) THEN FALSE ELSE @,
                      !.connector_scaling_mode_changed =
                          IF s = "ATOMIC" THEN FALSE ELSE @]]]

\* display_commit_changed
display_commit_changed(pls, pps, outs, s) ==
    [planes |-> [id \in PlaneIds |->
                   [pls[id] EXCEPT
                      !.fb_changed = FALSE,
                      !.position_changed = FALSE,
                      !.size_changed = FALSE,
                      !.rotation_changed = IF ClearsRotation(s, id[2]) THEN FALSE ELSE @]],
     pipes |-> [p \in Pipes |->
                   [pps[p] EXCEPT
                      !.color_mgmt_changed = FALSE,
                      !.background_changed = FALSE,
                      !.mode_changed = IF ClearsMode(s) THEN FALSE ELSE @]],
     outputs |-> [o \in Outputs |->
                   [outs[o] EXCEPT
                      !.pipe_changed = IF ClearsMode(s) THEN FALSE ELSE @,
                      !.connector_scaling_mode_changed =
                          IF s = "ATOMIC" THEN FALSE ELSE @]]]

(* ------------------------------------------------------------------ *)
(* Atomic programming                                                  *)
(* ------------------------------------------------------------------ *)

\* One property of the atomic request
Prop(obj, id, name, value) == [obj |-> obj, id |-> id, prop |-> name, value |-> value]

\* The mode blob a pipe with mode_changed gets: none without an output
ModeBlobReplaced(pp, outs, bl, output) ==
    IF ~pp.mode_changed THEN [blobs |-> bl, id |-> pp.mode_blob, log |-> <<>>]
    ELSE IF output = -1
    THEN igt_pipe_replace_blob(bl, pp.mode_blob, "none", 0)
    ELSE igt_pipe_replace_blob(bl, pp.mode_blob, igt_output_get_mode(outs[output]), 1)

CrtcPrepared(p, pp, output, r) ==
    [pipe |-> [pp EXCEPT !.mode_blob = r.id],
     blobs |-> r.blobs,
     log |-> r.log,
     props |->
        (IF pp.background_changed
         THEN <<Prop("crtc", <<p>>, "background", pp.background)>> ELSE <<>>)
        \o (IF pp.color_mgmt_changed
            THEN <<Prop("crtc", <<p>>, "DEGAMMA_LUT", pp.degamma_blob),
                   Prop("crtc", <<p>>, "CTM", pp.ctm_blob),
                   Prop("crtc", <<p>>, "GAMMA_LUT", pp.gamma_blob)>>
            ELSE <<>>)
        \o (IF pp.mode_changed
            THEN <<Prop("crtc", <<p>>, "MODE_ID", r.id),
                   Prop("crtc", <<p>>, "ACTIVE", IF output = -1 THEN 0 ELSE 1)>>
            ELSE <<>>)]

CrtcPrepare(p, pp, outs, bl, output) ==
    CrtcPrepared(p, pp, output, ModeBlobReplaced(pp, outs, bl, output))

\* igt_atomic_prepare_crtc_commit: the pipe record, the blob table, the blob
\* calls issued and the CRTC properties added
igt_atomic_prepare_crtc_commit(p, pp, outs, bl) ==
    CrtcPrepare(p, pp, outs, bl, igt_pipe_get_output(outs, p))

\* igt_atomic_prepare_plane_commit: the plane properties added
igt_atomic_prepare_plane_commit(p, i, pl) ==
    (IF pl.fb_changed
     THEN <<Prop("plane", <<p, i>>, "CRTC_ID",
                 IF pl.fb.fb_id # 0 THEN crtc_id(p) ELSE 0),
            Prop("plane", <<p, i>>, "FB_ID", pl.fb.fb_id)>>
     ELSE <<>>)
    \o (IF pl.position_changed \/ pl.size_changed
        THEN <<Prop("plane", <<p, i>>, "SRC_X", IGT_FIXED(pl.src_x)),
               Prop("plane", <<p, i>>, "SRC_Y", IGT_FIXED(pl.src_y)),
               Prop("plane", <<p, i>>, "SRC_W", IGT_FIXED(pl.src_w)),
               Prop("plane", <<p, i>>, "SRC_H", IGT_FIXED(pl.src_h)),
               Prop("plane", <<p, i>>, "CRTC_X", pl.crtc_x),
               Prop("plane", <<p, i>>, "CRTC_Y", pl.crtc_y),
               Prop("plane", <<p, i>>, "CRTC_W", pl.crtc_w),
               Prop("plane", <<p, i>>, "CRTC_H", pl.crtc_h)>>
        ELSE <<>>)
    \o (IF pl.rotation_changed
        THEN <<Prop("plane", <<p, i>>, "rotation", pl.rotation)>>
        ELSE <<>>)

\* igt_atomic_prepare_connector_commit: the connector properties added
igt_atomic_prepare_connector_commit(o, out) ==
    (IF out.connector_scaling_mode_changed
     THEN <<Prop("connector", <<o>>, "scaling mode", out.connector_scaling_mode)>>
     ELSE <<>>)
    \o (IF out.pipe_changed
        THEN <<Prop("connector", <<o>>, "CRTC_ID",
                    IF out.pipe # PIPE_NONE THEN crtc_id(out.pipe) ELSE 0)>>
        ELSE <<>>)

\* igt_assert(igt_plane_supports_rotation(plane) || !plane->rotation_changed)
\* holds for every plane of the pipe
RotationAssertOk(p, pls) ==
    \A i \in Slots : rotation_property(i) # 0 \/ ~pls[<<p, i>>].rotation_changed

\* The pipe loop of igt_atomic_commit from pipe p on; aborted when a plane
\* with a pending rotation has no rotation property
RECURSIVE AtomicPipes(_, _, _, _, _, _, _)
RECURSIVE AtomicPipe(_, _, _, _, _, _, _)
AtomicPipe(p, pls, pps, outs, log, props, c) ==
    IF ~RotationAssertOk(p, pls)
    THEN [aborted |-> TRUE, pipes |-> [pps EXCEPT ![p] = c.pipe], blobs |-> c.blobs,
          log |-> log \o c.log, props |-> props]
    ELSE AtomicPipes(p + 1, pls, [pps EXCEPT ![p] = c.pipe], outs, c.blobs,
           log \o c.log,
           props \o c.props
           \o Flatten([i \in 1 .. n_planes |->
                igt_atomic_prepare_plane_commit(p, i - 1, pls[<<p, i - 1>>])]))

AtomicPipes(p, pls, pps, outs, bl, log, props) ==
    IF p >= n_pipes
    THEN [aborted |-> FALSE, pipes |-> pps, blobs |-> bl, log |-> log, props |-> props]
    ELSE AtomicPipe(p, pls, pps, outs, log, props,
                    igt_atomic_prepare_crtc_commit(p, pps[p], outs, bl))

\* The places of the request that set property name of an object
PropSet(props, obj, id, name) ==
    {n \in 1 .. Len(props) :
        props[n].obj = obj /\ props[n].id = id /\ props[n].prop = name}

PropLast(props, S, old) == IF S = {} THEN old ELSE props[Max(S)].value

\* The value the request leaves in a property: the last one it sets, the old
\* value when it sets none
PropValue(props, obj, id, name, old) ==
    PropLast(props, PropSet(props, obj, id, name), old)

\* The mode a CRTC has after the request: that of the blob MODE_ID names
ModeAfter(S, props, bl, old) ==
    IF S = {} THEN old
    ELSE IF props[Max(S)].value = 0 THEN "none" ELSE bl[props[Max(S)].value]

\* What the driver keeps of an atomic request it applied
ApplyProps(d, props, bl) ==
    [plane |-> [id \in PlaneIds |->
        [fb |-> PropValue(props, "plane", id, "FB_ID", d.plane[id].fb),
         crtc_x |-> PropValue(props, "plane", id, "CRTC_X", d.plane[id].crtc_x),
         crtc_y |-> PropValue(props, "plane", id, "CRTC_Y", d.plane[id].crtc_y),
         crtc_w |-> PropValue(props, "plane", id, "CRTC_W", d.plane[id].crtc_w),
         crtc_h |-> PropValue(props, "plane", id, "CRTC_H", d.plane[id].crtc_h),
         rotation |-> PropValue(props, "plane", id, "rotation", d.plane[id].rotation)]],
     crtc |-> [p \in Pipes |->
        [mode |-> ModeAfter(PropSet(props, "crtc", <<p>>, "MODE_ID"), props, bl,
                            d.crtc[p].mode),
         active |-> PropValue(props, "crtc", <<p>>, "ACTIVE", d.crtc[p].active),
         background |-> PropValue(props, "crtc", <<p>>, "background",
                                  d.crtc[p].background)]],
     conn |-> [o \in Outputs |->
        [crtc_id |-> PropValue(props, "connector", <<o>>, "CRTC_ID", d.conn[o].crtc_id),
         scaling_mode |-> PropValue(props, "connector", <<o>>, "scaling mode",
                                    d.conn[o].scaling_mode)]]]

\* A driver that applies a request it accepts even with TEST_ONLY set
AtomicIoctlApplies(a, props, d, flags, ret) ==
    [aborted |-> FALSE, ret |-> ret, pipes |-> a.pipes, blobs |-> a.blobs,
     log |-> Append(a.log,
                    [call |-> "AtomicCommit", pipe |-> PIPE_NONE, slot |-> 0,
                     a |-> [props |-> props, flags |-> flags], ret |-> ret]),
     drv |-> IF ret = 0 THEN ApplyProps(d, props, a.blobs) ELSE d]

\* drmModeAtomicCommit with the request built; the driver applies it when it
\* accepts and TEST_ONLY is not set
AtomicIoctl(a, props, d, flags, ret) ==
    [aborted |-> FALSE, ret |-> ret, pipes |-> a.pipes, blobs |-> a.blobs,
     log |-> Append(a.log,
                    [call |-> "AtomicCommit", pipe |-> PIPE_NONE, slot |-> 0,
                     a |-> [props |-> props, flags |-> flags], ret |-> ret]),
     drv |-> IF ret = 0 /\ "TEST_ONLY" \notin flags
             THEN ApplyProps(d, props, a.blobs) ELSE d]

AtomicSubmit(a, outs, d, flags, accept) ==
    IF a.aborted
    THEN [aborted |-> TRUE, ret |-> 0, pipes |-> a.pipes, blobs |-> a.blobs,
          log |-> a.log, drv |-> d]
    ELSE AtomicIoctl(a,
           a.props \o Flatten([o \in 1 .. n_outputs |->
                        igt_atomic_prepare_connector_commit(o - 1, outs[o - 1])]),
           d, flags, IF accept THEN 0 ELSE EINVAL_NEG)

\* igt_atomic_commit without the test of display->is_atomic
igt_atomic_commit_ignores_cap(pls, pps, outs, bl, d, atomic, flags, accept) ==
    AtomicSubmit(AtomicPipes(0, pls, pps, outs, bl, <<>>, <<>>),
                 outs, d, flags, accept)

\* igt_atomic_commit: accept is the driver's answer to drmModeAtomicCommit
igt_atomic_commit(pls, pps, outs, bl, d, atomic, flags, accept) ==
    IF ~atomic
    THEN [aborted |-> FALSE, ret |-> -1, pipes |-> pps, blobs |-> bl,
          log |-> <<>>, drv |-> d]
    ELSE AtomicSubmit(AtomicPipes(0, pls, pps, outs, bl, <<>>, <<>>),
                      outs, d, flags, accept)

(* ------------------------------------------------------------------ *)
(* Commit entry points                                                 *)
(* ------------------------------------------------------------------ *)

Styles == {"LEGACY", "UNIVERSAL", "ATOMIC"}

\* The state a commit leaves and how it ended: outcome "ret" (returned ret),
\* "abort" (an igt_assert failed: what says which) or "crash"
Res(pls, pps, outs, in_use, d, bl, log, outcome, ret, what) ==
    [planes |-> pls, pipes |-> pps, outputs |-> outs, pipes_in_use |-> in_use,
     drv |-> d, blobs |-> bl, calls |-> log,
     outcome |-> outcome, ret |-> ret, what |-> what]

\* The steps a legacy or universal-plane commit attempts after the refresh rf
CommitSteps(rf, s) ==
    IF s = "ATOMIC" \/ ~rf.ok THEN <<>>
    ELSE PipeLoop(planes, pipes, rf.outputs, s)

\* The calls of the commit the driver may fail: 0 is none
FailChoices(steps) == 0 .. Min({NumCalls(steps), MaxFailAt})

\* valid_outs of do_display_commit
valid_outs(outs) == Cardinality({p \in Pipes : igt_pipe_get_output(outs, p) # -1})

\* The flags cleared after a commit that succeeded
Cleared(rf, c, d, bl, log) ==
    Res(c.planes, c.pipes, c.outputs, rf.pipes_in_use, d, bl, log, "ret", 0, "none")

\* The end of do_display_commit and igt_display_try_commit_atomic after
\* igt_atomic_commit: checked is TRUE when CHECK_RETURN or the TEST_ONLY test
\* looks at the result
AtomicDone(rf, a, fail_on_error, test_only) ==
    IF a.aborted
    THEN Res(planes, a.pipes, rf.outputs, rf.pipes_in_use, a.drv, a.blobs,
             a.log, "abort", 0, "rotation_unsupported")
    ELSE IF a.ret # 0 /\ fail_on_error
    THEN Res(planes, a.pipes, rf.outputs, rf.pipes_in_use, a.drv, a.blobs,
             a.log, "abort", a.ret, "check_return")
    ELSE IF a.ret # 0 \/ test_only
    THEN Res(planes, a.pipes, rf.outputs, rf.pipes_in_use, a.drv, a.blobs,
             a.log, "ret", a.ret, "none")
    ELSE Cleared(rf, display_commit_changed(planes, a.pipes, rf.outputs, "ATOMIC"),
                 a.drv, a.blobs, a.log)

\* do_display_commit clearing the flags before it looks at valid_outs
LegacyEndClearsFirst(rf, run, pps1, d1, s) ==
    IF run.outcome # "done"
    THEN Res(planes, pps1, rf.outputs, rf.pipes_in_use, d1, blobs,
             run.log, run.outcome, run.ret, run.what)
    ELSE IF valid_outs(rf.outputs) = 0
    THEN Res(display_commit_changed(planes, pps1, rf.outputs, s).planes,
             pps1, rf.outputs, rf.pipes_in_use, d1, blobs,
             run.log, "ret", -1, "no_valid_outs")
    ELSE Cleared(rf, display_commit_changed(planes, pps1, rf.outputs, s),
                 d1, blobs, run.log)

\* The end of do_display_commit after the pipe loop
LegacyEnd(rf, run, pps1, d1, s) ==
    IF run.outcome # "done"
    THEN Res(planes, pps1, rf.outputs, rf.pipes_in_use, d1, blobs,
             run.log, run.outcome, run.ret, run.what)
    ELSE IF valid_outs(rf.outputs) = 0
    THEN Res(planes, pps1, rf.outputs, rf.pipes_in_use, d1, blobs,
             run.log, "ret", -1, "no_valid_outs")
    ELSE Cleared(rf, display_commit_changed(planes, pps1, rf.outputs, s),
                 d1, blobs, run.log)

LegacyDone(rf, run, s) ==
    LegacyEnd(rf, run, EnabledAfter(pipes, run.log), ApplyLog(Drv, run.log), s)

\* do_display_commit after the refresh rf: fail_at is the driver call that
\* fails (legacy and universal), accept is the driver's answer to the atomic
\* request
do_display_commit(rf, steps, s, fail_on_error, fail_at, accept) ==
    IF ~rf.ok
    THEN Res(planes, pipes, outputs, {}, Drv, blobs, <<>>, "abort", 0, "refresh")
    ELSE IF s = "ATOMIC"
    THEN AtomicDone(rf,
           igt_atomic_commit(planes, pipes, rf.outputs, blobs, Drv,
                             is_atomic, {"ALLOW_MODESET"}, accept),
           fail_on_error, FALSE)
    ELSE LegacyDone(rf, RunSteps(steps, fail_at, fail_on_error), s)

\* igt_display_try_commit_atomic after the refresh rf
try_commit_atomic(rf, flags, accept) ==
    IF ~rf.ok
    THEN Res(planes, pipes, outputs, {}, Drv, blobs, <<>>, "abort", 0, "refresh")
    ELSE AtomicDone(rf,
           igt_atomic_commit(planes, pipes, rf.outputs, blobs, Drv,
                             is_atomic, flags, accept),
           FALSE, "TEST_ONLY" \in flags)

\* What an entry point does with the result r of the commit: igt_display_commit2
\* returns 0 whatever do_display_commit returned, igt_display_commit_atomic
\* asserts that the result is 0
EntryAborts(entry, r) == entry = "commit_atomic" /\ r.outcome = "ret" /\ r.ret # 0
EntryRet(entry, r) == IF entry = "commit2" THEN 0 ELSE r.ret

\* A commit entry point has run and left the state r
Commit(entry, s, fail_on_error, flags, r) ==
    /\ Step([op |-> "commit", entry |-> entry, style |-> s,
             fail_on_error |-> fail_on_error,
             test_only |-> ("TEST_ONLY" \in flags),
             outcome |-> IF EntryAborts(entry, r) THEN "abort" ELSE r.outcome,
             ret |-> EntryRet(entry, r), inner |-> r.ret,
             what |-> IF EntryAborts(entry, r) THEN "commit_atomic" ELSE r.what])
    /\ planes' = r.planes
    /\ pipes' = r.pipes
    /\ outputs' = r.outputs
    /\ pipes_in_use' = r.pipes_in_use
    /\ drv_plane' = r.drv.plane
    /\ drv_crtc' = r.drv.crtc
    /\ drv_conn' = r.drv.conn
    /\ blobs' = r.blobs
    /\ calls' = r.calls
    /\ UNCHANGED is_atomic

\* igt_display_commit2
igt_display_commit2(rf, steps, s, fail_at, accept) ==
    Commit("commit2", s, TRUE, {},
           do_display_commit(rf, steps, s, TRUE, fail_at, accept))

\* igt_display_try_commit2
igt_display_try_commit2(rf, steps, s, fail_at, accept) ==
    Commit("try_commit2", s, FALSE, {},
           do_display_commit(rf, steps, s, FALSE, fail_at, accept))

\* igt_display_try_commit_atomic
igt_display_try_commit_atomic(rf, flags, accept) ==
    Commit("try_commit_atomic", "ATOMIC", FALSE, flags,
           try_commit_atomic(rf, flags, accept))

\* igt_display_commit_atomic: igt_assert_eq(ret, 0)
igt_display_commit_atomic(rf, flags, accept) ==
    Commit("commit_atomic", "ATOMIC", TRUE, flags,
           try_commit_atomic(rf, flags, accept))

\* The flag sets tests pass to the atomic entry points
AtomicFlags == {{"ALLOW_MODESET"}, {"ALLOW_MODESET", "TEST_ONLY"}}

(* ------------------------------------------------------------------ *)
(* Specification                                                       *)
(* ------------------------------------------------------------------ *)

\* The driver's answers to an atomic request; other styles issue none
Accepts(s) == IF s = "ATOMIC" THEN BOOLEAN ELSE {TRUE}

\* A run makes at most MaxOps library calls, none after igt_display_fini
Budget == nops < MaxOps /\ last.op # "fini"

SetPipe == Budget /\ \E o \in Outputs : \E pipe \in Pipes \cup {PIPE_NONE} :
               igt_output_set_pipe(o, pipe)
OverrideMode == Budget /\ \E o \in Outputs : \E m \in OverrideModes \cup {"none"} :
                    igt_output_override_mode(o, m)
SetScalingMode == Budget /\ \E o \in Outputs : \E m \in ScalingModes :
                      igt_output_set_scaling_mode(o, m)
SetFb == Budget /\ \E id \in TestPlanes : \E fb \in Fbs : igt_plane_set_fb(id, fb)
SetPosition == Budget /\ \E id \in TestPlanes : \E xy \in Positions :
                   igt_plane_set_position(id, xy[1], xy[2])
SetSize == Budget /\ \E id \in TestPlanes : \E wh \in Sizes : igt_plane_set_size(id, wh[1], wh[2])
SetRotation == Budget /\ \E id \in TestPlanes : \E r \in Rotations : igt_plane_set_rotation(id, r)
SetBackground == Budget /\ \E p \in Pipes : \E b \in Backgrounds : igt_crtc_set_background(p, b)
SetLut == Budget /\ \E p \in Pipes : \E kind \in BlobKinds : \E len \in BlobLengths :
              igt_pipe_set_lut(p, kind, len)
Commit2With(rf, s, steps) ==
    \E fail_at \in FailChoices(steps) : \E accept \in Accepts(s) :
        igt_display_commit2(rf, steps, s, fail_at, accept)
Commit2After(rf) == \E s \in Styles : Commit2With(rf, s, CommitSteps(rf, s))
Commit2 == Budget /\ Commit2After(igt_display_refresh(outputs))

TryCommit2With(rf, s, steps) ==
    \E fail_at \in FailChoices(steps) : \E accept \in Accepts(s) :
        igt_display_try_commit2(rf, steps, s, fail_at, accept)
TryCommit2After(rf) == \E s \in Styles : TryCommit2With(rf, s, CommitSteps(rf, s))
TryCommit2 == Budget /\ TryCommit2After(igt_display_refresh(outputs))

TryCommitAtomicAfter(rf) ==
    \E flags \in AtomicFlags : \E accept \in BOOLEAN :
        igt_display_try_commit_atomic(rf, flags, accept)
TryCommitAtomic == Budget /\ TryCommitAtomicAfter(igt_display_refresh(outputs))

CommitAtomicAfter(rf) ==
    \E flags \in AtomicFlags : \E accept \in BOOLEAN :
        igt_display_commit_atomic(rf, flags, accept)
CommitAtomic == Budget /\ CommitAtomicAfter(igt_display_refresh(outputs))

Fini == Budget /\ igt_display_fini

Next ==
    \/ SetPipe
    \/ OverrideMode
    \/ SetScalingMode
    \/ SetFb
    \/ SetPosition
    \/ SetSize
    \/ SetRotation
    \/ SetBackground
    \/ SetLut
    \/ Commit2
    \/ TryCommit2
    \/ TryCommitAtomic
    \/ CommitAtomic
    \/ Fini

Spec == Init /\ [][Next]_vars

(* ------------------------------------------------------------------ *)
(* Longer runs of one test on pipe 0: one output, the primary and the  *)
(* cursor plane, commits that the driver accepts                       *)
(* ------------------------------------------------------------------ *)

PlaneBudget == nops < MaxPlaneOps

CursorSlot == n_planes - 1

PlaneTestSetPipe == PlaneBudget /\ igt_output_set_pipe(0, 0)

PlaneTestSetFb == PlaneBudget /\ \E i \in {IGT_PLANE_PRIMARY, CursorSlot} :
    \E fb \in Fbs : igt_plane_set_fb(<<0, i>>, fb)

PlaneTestSetSize == PlaneBudget /\ \E sz \in Sizes :
    igt_plane_set_size(<<0, CursorSlot>>, sz[1], sz[2])

PlaneTestSetPosition == PlaneBudget /\ \E pos \in Positions :
    igt_plane_set_position(<<0, CursorSlot>>, pos[1], pos[2])

PlaneTestCommitWith(rf, s) ==
    igt_display_try_commit2(rf, CommitSteps(rf, s), s, 0, TRUE)
PlaneTestCommitAfter(rf) == \E s \in Styles : PlaneTestCommitWith(rf, s)
PlaneTestCommit == PlaneBudget /\ PlaneTestCommitAfter(igt_display_refresh(outputs))

PlaneTestGetPlane == PlaneBudget /\ \E plane \in PlaneKinds :
    igt_output_get_plane(0, plane)

PlaneTestNext ==
    \/ PlaneTestSetPipe
    \/ PlaneTestGetPlane
    \/ PlaneTestSetFb
    \/ PlaneTestSetSize
    \/ PlaneTestSetPosition
    \/ PlaneTestCommit

SpecPlaneTest == Init /\ [][PlaneTestNext]_vars

(* ------------------------------------------------------------------ *)
(* CRC capture session (igt_pipe_crc_t): one session, either backend   *)
(* ------------------------------------------------------------------ *)

\* igt_debugfs_open: the descriptor open() returns, the lowest one free
NewFd(fds) == Min({n \in 3 .. (3 + Cardinality(fds)) : \A x \in fds : x[1] # n})

\* pipe_crc_new: the control file, and for the legacy backend the data file
pipe_crc_new(legacy, nonblock) ==
    [alive |-> TRUE, freed |-> FALSE, is_legacy |-> legacy, nonblock |-> nonblock,
     ctl_fd |-> NewFd({}),
     crc_fd |-> IF legacy THEN NewFd({<<NewFd({}), "ctl">>}) ELSE -1,
     fds |-> {<<NewFd({}), "ctl">>}
             \cup (IF legacy THEN {<<NewFd({<<NewFd({}), "ctl">>}), "data">>} ELSE {}),
     capturing |-> FALSE]

\* A step of a session operation the driver sees; was_capturing is the
\* driver's capture state when the step is made
CrcCall(name, c) == [call |-> name, was_capturing |-> c.capturing]

\* igt_pipe_crc_stop: the legacy backend writes "pipe X none", the generic
\* backend closes the data file (close(-1) closes nothing)
igt_pipe_crc_stop(c) ==
    IF c.is_legacy THEN [c EXCEPT !.capturing = FALSE]
    ELSE [c EXCEPT !.fds = {x \in @ : x[1] # c.crc_fd}, !.crc_fd = -1, !.capturing = FALSE]

\* igt_pipe_crc_do_start after its stop, on the session s: the write of the
\* source to the control file, then for the generic backend the open of the
\* data file
CrcEnable(s, wr_ok, open_ok) ==
    IF ~wr_ok
    THEN [ok |-> FALSE, crc |-> s, log |-> <<CrcCall("write_failed", s)>>]
    ELSE IF s.is_legacy
    THEN [ok |-> TRUE, crc |-> [s EXCEPT !.capturing = TRUE],
          log |-> <<CrcCall("enable", s)>>]
    ELSE IF ~open_ok
    THEN [ok |-> FALSE, crc |-> [s EXCEPT !.crc_fd = -1],
          log |-> <<CrcCall("open_failed", s)>>]
    ELSE [ok |-> TRUE,
          crc |-> [s EXCEPT !.crc_fd = NewFd(s.fds),
                            !.fds = @ \cup {<<NewFd(s.fds), "data">>},
                            !.capturing = TRUE],
          log |-> <<CrcCall("enable", s)>>]

\* igt_pipe_crc_do_start without the stop it begins with
igt_pipe_crc_do_start_no_stop(c, wr_ok, open_ok) == CrcEnable(c, wr_ok, open_ok)

\* igt_pipe_crc_do_start: stops first, then enables
igt_pipe_crc_do_start(c, wr_ok, open_ok) ==
    [CrcEnable(igt_pipe_crc_stop(c), wr_ok, open_ok)
        EXCEPT !.log = <<CrcCall("disable", c)>> \o @]

\* igt_pipe_crc_start after igt_pipe_crc_do_start returned r: asserts r.ok,
\* then reads and throws away two CRCs on the legacy backend
CrcStarted(r) ==
    [outcome |-> IF r.ok THEN "ret" ELSE "abort", crc |-> r.crc,
     log |-> r.log \o (IF r.ok /\ r.crc.is_legacy
                       THEN <<CrcCall("read", r.crc), CrcCall("read", r.crc)>>
                       ELSE <<>>)]

igt_pipe_crc_start(c, wr_ok, open_ok) ==
    CrcStarted(igt_pipe_crc_do_start(c, wr_ok, open_ok))

\* igt_pipe_crc_collect_crc after igt_pipe_crc_start ended as st: one read,
\* then igt_pipe_crc_stop
CrcCollected(st) ==
    IF st.outcome = "abort" THEN st
    ELSE [outcome |-> "ret", crc |-> igt_pipe_crc_stop(st.crc),
          log |-> st.log \o <<CrcCall("read", st.crc), CrcCall("disable", st.crc)>>]

igt_pipe_crc_collect_crc(c, wr_ok, open_ok) ==
    CrcCollected(igt_pipe_crc_start(c, wr_ok, open_ok))

\* igt_pipe_crc_free: closes the control and the data descriptor.  Closing the
\* data file of the generic backend ends the capture
igt_pipe_crc_free(c) ==
    [c EXCEPT !.alive = FALSE, !.freed = TRUE,
              !.fds = {x \in @ : x[1] # c.ctl_fd /\ x[1] # c.crc_fd},
              !.capturing = IF c.is_legacy THEN @ ELSE FALSE]

\* What the data file gives to successive reads: a line that parses or, on
\* the legacy backend, one that sscanf does not parse
ReadSeqs(c) ==
    UNION {[1 .. n -> IF c.is_legacy THEN {"line", "bad"} ELSE {"line"}] :
              n \in 0 .. (MaxCrcs + 1)}

\* The loop of igt_pipe_crc_get_crcs with n records counted so far: read_crc
\* stores into crcs[n], a line that does not parse goes on to the loop
\* condition without being counted, and a read that finds nothing ends the
\* loop (non-blocking) or runs into the timeout (blocking)
RECURSIVE GetCrcsLoop(_, _, _, _, _)
GetCrcsLoop(c, n, n_crcs, reads, stored) ==
    IF reads = <<>>
    THEN [outcome |-> IF c.nonblock THEN "ret" ELSE "abort", ret |-> n, stored |-> stored]
    ELSE IF Head(reads) = "bad"
    THEN IF n < n_crcs
         THEN GetCrcsLoop(c, n, n_crcs, Tail(reads), stored \cup {n})
         ELSE [outcome |-> "ret", ret |-> n, stored |-> stored \cup {n}]
    ELSE IF n + 1 < n_crcs
    THEN GetCrcsLoop(c, n + 1, n_crcs, Tail(reads), stored \cup {n})
    ELSE [outcome |-> "ret", ret |-> n + 1, stored |-> stored \cup {n}]

\* igt_pipe_crc_get_crcs: ret is the count returned, stored the places of the
\* buffer of n_crcs records that were written
igt_pipe_crc_get_crcs(c, n_crcs, reads) == GetCrcsLoop(c, 0, n_crcs, reads, {})

\* A session operation has run and left the session c
CrcStep(rec, c, log) ==
    /\ nops' = nops + 1
    /\ last' = rec
    /\ crc' = c
    /\ calls' = log
    /\ UNCHANGED <<model_vars, drv_vars, core, test>>

\* A test makes at most MaxCrcOps calls on the session, none after an
\* assertion failed and none after igt_pipe_crc_free
CrcBudget ==
    /\ nops < MaxCrcOps
    /\ ~crc.freed
    /\ IF last.op = "init" THEN TRUE ELSE last.outcome # "abort"

CrcNew == CrcBudget /\ ~crc.alive /\ \E legacy \in BOOLEAN : \E nonblock \in BOOLEAN :
    CrcStep([op |-> "crc_new", outcome |-> "ret"], pipe_crc_new(legacy, nonblock), <<>>)

CrcRan(name, r) == CrcStep([op |-> name, outcome |-> r.outcome], r.crc, r.log)

CrcStart == CrcBudget /\ crc.alive /\ \E wr_ok \in BOOLEAN : \E open_ok \in BOOLEAN :
    CrcRan("crc_start", igt_pipe_crc_start(crc, wr_ok, open_ok))

CrcCollect == CrcBudget /\ crc.alive /\ \E wr_ok \in BOOLEAN : \E open_ok \in BOOLEAN :
    CrcRan("crc_collect", igt_pipe_crc_collect_crc(crc, wr_ok, open_ok))

CrcStop == CrcBudget /\ crc.alive /\
    CrcStep([op |-> "crc_stop", outcome |-> "ret", repeated |-> ~crc.capturing],
            igt_pipe_crc_stop(crc), <<CrcCall("disable", crc)>>)

CrcRead(n_crcs, reads, r) ==
    CrcStep([op |-> "crc_get_crcs", outcome |-> r.outcome, n_crcs |-> n_crcs,
             reads |-> reads, ret |-> r.ret, stored |-> r.stored],
            crc, <<>>)

\* igt_pipe_crc_get_crcs is called between igt_pipe_crc_start and igt_pipe_crc_stop
CrcGetCrcs == CrcBudget /\ crc.alive /\ crc.capturing
    /\ \E n_crcs \in 0 .. MaxCrcs : \E reads \in ReadSeqs(crc) :
          CrcRead(n_crcs, reads, igt_pipe_crc_get_crcs(crc, n_crcs, reads))

CrcFree == CrcBudget /\ crc.alive /\
    CrcStep([op |-> "crc_free", outcome |-> "ret"], igt_pipe_crc_free(crc), <<>>)

\* A checksum word, and the contents of crc[] (what a record that was never
\* written holds is anything)
CrcWord == {0, 1}
CrcArrays == [1 .. MaxWords -> CrcWord]

\* A line of the data file: the checksum words after the frame field
CrcLines == UNION {[1 .. n -> CrcWord] : n \in 0 .. MaxWords}

\* pipe_crc_init_from_string into the record out: the legacy format has a
\* fixed number of words and parses when sscanf converts them all, the
\* generic format has as many words as the line; places that are not
\* converted keep what out held
pipe_crc_init_from_string(legacy, out, line) ==
    [ok |-> IF legacy THEN Len(line) = MaxWords ELSE TRUE,
     crc |-> [n_words |-> IF legacy THEN MaxWords ELSE Len(line),
              crc |-> [i \in 1 .. MaxWords |->
                          IF i <= Len(line) THEN line[i] ELSE out[i]]]]

\* igt_assert_crc_equal: TRUE when no igt_assert_eq_u32 of the loop fails
igt_assert_crc_equal(a, b) == \A i \in 1 .. a.n_words : a.crc[i] = b.crc[i]

CrcCompared(a, b) ==
    CrcStep([op |-> "assert_crc_equal", a |-> a, b |-> b,
             outcome |-> IF igt_assert_crc_equal(a, b) THEN "ret" ELSE "abort"],
            crc, <<>>)

\* The checksums pipe_crc_init_from_string gives for the lines it parses
ParsedCrcs(legacy) ==
    {p.crc : p \in {q \in {pipe_crc_init_from_string(legacy, out, line) :
                                out \in CrcArrays, line \in CrcLines} : q.ok}}

\* Two checksums read from a data file are compared
CrcCompare == CrcBudget /\ \E legacy \in BOOLEAN :
    \E a \in ParsedCrcs(legacy) : \E b \in ParsedCrcs(legacy) : CrcCompared(a, b)

CrcNext ==
    \/ CrcNew
    \/ CrcStart
    \/ CrcCollect
    \/ CrcStop
    \/ CrcGetCrcs
    \/ CrcFree

SpecCrc == Init /\ [][CrcNext]_vars

\* Runs of a test that only compares checksums
CrcEqualNext == CrcCompare

SpecCrcEqual == Init /\ [][CrcEqualNext]_vars

(* ------------------------------------------------------------------ *)
(* igt_core.c: subtests, fixtures, failure, skip and the deadline alarm *)
(* ------------------------------------------------------------------ *)

\* What a call of igt_core.c leaves: the static state, the result line it
\* printed for a subtest ("none": no line) and whether it dumped the log
\* ring buffer
CoreRet(c, printed, dumped) == [core |-> c, printed |-> printed, dumped |-> dumped]

\* exit_subtest: prints the result, clears in_subtest and jumps out of the block
exit_subtest(c, result, dumped) == CoreRet([c EXCEPT !.in_subtest = FALSE], result, dumped)

\* igt_fail after it stored the exit code and dumped the log: in a subtest
\* the subtest ends; outside of one the assertion on in_fixture aborts the
\* process unless a fixture runs, whose end marks the subtests that follow
igt_fail_from(c, exitcode) ==
    IF c.in_subtest
    THEN exit_subtest(c, IF exitcode = "IGT_EXIT_TIMEOUT" THEN "TIMEOUT" ELSE "FAIL", TRUE)
    ELSE IF ~c.in_fixture
    THEN CoreRet([c EXCEPT !.status = "abort"], "none", TRUE)
    ELSE CoreRet([c EXCEPT !.skip_subtests_henceforth = "FAIL", !.in_fixture = FALSE],
                 "none", TRUE)

\* (igt_fail that stores the exit code of every failure comes first)
igt_fail_overwrites(c, exitcode) ==
    igt_fail_from([c EXCEPT !.igt_exitcode = exitcode, !.failed_one = TRUE], exitcode)

igt_fail(c, exitcode) ==
    igt_fail_from([c EXCEPT !.igt_exitcode = IF c.failed_one THEN @ ELSE exitcode,
                            !.failed_one = TRUE], exitcode)

\* igt_skip in a test with subtests
igt_skip(c) ==
    IF c.in_subtest
    THEN exit_subtest([c EXCEPT !.skipped_one = TRUE], "SKIP", FALSE)
    ELSE IF ~c.in_fixture
    THEN CoreRet([c EXCEPT !.skipped_one = TRUE, !.skip_subtests_henceforth = "SKIP",
                           !.status = "abort"], "none", FALSE)
    ELSE CoreRet([c EXCEPT !.skipped_one = TRUE, !.skip_subtests_henceforth = "SKIP",
                           !.in_fixture = FALSE], "none", FALSE)

\* igt_success
igt_success(c) ==
    IF c.in_subtest
    THEN exit_subtest([c EXCEPT !.succeeded_one = TRUE], "SUCCESS", FALSE)
    ELSE CoreRet([c EXCEPT !.succeeded_one = TRUE], "none", FALSE)

\* __igt_run_subtest: a subtest that is marked is reported and not run
igt_run_subtest(c) ==
    IF c.skip_subtests_henceforth # "CONT"
    THEN CoreRet(c, c.skip_subtests_henceforth, FALSE)
    ELSE CoreRet([c EXCEPT !.in_subtest = TRUE], "none", FALSE)

\* __igt_fixture and __igt_fixture_complete
igt_fixture(c) ==
    IF c.skip_subtests_henceforth # "CONT" THEN c ELSE [c EXCEPT !.in_fixture = TRUE]
igt_fixture_complete(c) == [c EXCEPT !.in_fixture = FALSE]

\* __igt_subtest_group_save at the start and __igt_subtest_group_restore at
\* the end of an igt_subtest_group block
igt_subtest_group_save(c) == [c EXCEPT !.groups = Append(@, c.skip_subtests_henceforth)]
\* (the restore that leaves skip_subtests_henceforth as it is comes first)
igt_subtest_group_restore_keeps(c) == [c EXCEPT !.groups = SubSeq(@, 1, Len(@) - 1)]

igt_subtest_group_restore(c) ==
    [c EXCEPT !.skip_subtests_henceforth = c.groups[Len(c.groups)],
              !.groups = SubSeq(@, 1, Len(@) - 1)]

\* igt_exit: the assertion that a subtest was reached, then exit(igt_exitcode)
igt_exit(c) ==
    IF ~(c.skipped_one \/ c.succeeded_one \/ c.failed_one)
    THEN [c EXCEPT !.status = "abort"]
    ELSE IF c.failed_one THEN [c EXCEPT !.status = c.igt_exitcode]
    ELSE IF c.succeeded_one
    THEN [c EXCEPT !.igt_exitcode = "IGT_EXIT_SUCCESS", !.status = "IGT_EXIT_SUCCESS"]
    ELSE [c EXCEPT !.igt_exitcode = "IGT_EXIT_SKIP", !.status = "IGT_EXIT_SKIP"]

\* igt_set_timeout: alarm(seconds) replaces the pending alarm; seconds = 0
\* cancels it (sigaction with a null action changes nothing)
igt_set_timeout(c, seconds) == [c EXCEPT !.alarm = seconds]

\* igt_reset_timeout that leaves the pending alarm alone
igt_reset_timeout_keeps_alarm(c) == c

\* igt_reset_timeout
igt_reset_timeout(c) == igt_set_timeout(c, 0)

\* igt_alarm_handler
igt_alarm_handler(c) == igt_fail(c, "IGT_EXIT_FAILURE")

\* One second passes: the pending alarm comes a second closer, and SIGALRM is
\* delivered when it is due
Elapse(c) ==
    IF c.alarm = 1 THEN igt_alarm_handler([c EXCEPT !.alarm = 0])
    ELSE CoreRet([c EXCEPT !.alarm = IF @ = 0 THEN 0 ELSE @ - 1], "none", FALSE)

\* Record of what fixtures have failed or skipped: in the block that is open
\* (marks) and in the whole run (marked)
Marked(c, kind) ==
    [c EXCEPT !.marks[Len(c.marks)] = IF @ = "CONT" THEN kind ELSE @,
              !.marked = IF @ = "CONT" THEN kind ELSE @]

CoreStep(rec, c) ==
    /\ nops' = nops + 1
    /\ last' = rec
    /\ core' = c
    /\ UNCHANGED <<model_vars, drv_vars, crc, test, calls>>

\* A call of igt_core.c has run from the state core and left r
CoreRan(name, r, c) ==
    CoreStep([op |-> name, pre |-> core, printed |-> r.printed, dumped |-> r.dumped], c)

CoreBudget == nops < MaxCoreOps /\ core.status = "running"
InBody == core.in_subtest \/ core.in_fixture

CoreRunSubtest == CoreBudget /\ ~InBody /\
    CoreRan("run_subtest", igt_run_subtest(core), igt_run_subtest(core).core)

CoreFixture == CoreBudget /\ ~InBody /\
    CoreRan("fixture", CoreRet(core, "none", FALSE), igt_fixture(core))

CoreGroupBegin == CoreBudget /\ ~InBody /\ Len(core.groups) < MaxGroups /\
    CoreRan("group_begin", CoreRet(core, "none", FALSE),
            [igt_subtest_group_save(core) EXCEPT !.marks = Append(@, @[Len(@)])])

CoreGroupEnd == CoreBudget /\ ~InBody /\ core.groups # <<>> /\
    CoreRan("group_end", CoreRet(core, "none", FALSE),
            [igt_subtest_group_restore(core) EXCEPT !.marks = SubSeq(@, 1, Len(@) - 1)])

\* The body of the block reaches its end
CoreBodyEnd == CoreBudget /\ InBody /\
    IF core.in_subtest
    THEN CoreRan("success", igt_success(core), igt_success(core).core)
    ELSE CoreRan("fixture_complete", CoreRet(core, "none", FALSE), igt_fixture_complete(core))

\* What a failure or skip in the state core leaves, r being what igt_fail or
\* igt_skip returned
Raised(r, kind) == IF core.in_fixture THEN Marked(r.core, kind) ELSE r.core

\* An igt_assert of the body fails
CoreAssertFails == CoreBudget /\ InBody /\
    CoreRan("fail", igt_fail(core, "IGT_EXIT_FAILURE"),
            Raised(igt_fail(core, "IGT_EXIT_FAILURE"), "FAIL"))

\* An igt_require of the body is not met
CoreSkip == CoreBudget /\ InBody /\
    CoreRan("skip", igt_skip(core), Raised(igt_skip(core), "SKIP"))

CoreSetTimeout == CoreBudget /\ InBody /\ \E seconds \in 1 .. MaxSeconds :
    CoreRan("set_timeout", CoreRet(core, "none", FALSE),
            [igt_set_timeout(core, seconds) EXCEPT !.deadline = seconds,
                                                   !.cancelled = FALSE])

CoreResetTimeout == CoreBudget /\ InBody /\
    CoreRan("reset_timeout", CoreRet(core, "none", FALSE),
            [igt_reset_timeout(core) EXCEPT !.deadline = 0,
                                            !.cancelled = core.alarm > 0])

\* Time passes, in a blocking call of the body or between two blocks
CoreTick == CoreBudget /\
    IF core.alarm = 1
    THEN CoreRan("alarm", Elapse(core),
                 [Raised(Elapse(core), "FAIL") EXCEPT !.deadline = 0])
    ELSE CoreRan("tick", Elapse(core),
                 [Elapse(core).core EXCEPT !.deadline = IF @ = 0 THEN 0 ELSE @ - 1])

CoreExit == CoreBudget /\ ~InBody /\ core.groups = <<>> /\
    CoreRan("exit", CoreRet(core, "none", FALSE), igt_exit(core))

CoreNext ==
    \/ CoreRunSubtest
    \/ CoreFixture
    \/ CoreGroupBegin
    \/ CoreGroupEnd
    \/ CoreBodyEnd
    \/ CoreAssertFails
    \/ CoreSkip
    \/ CoreSetTimeout
    \/ CoreResetTimeout
    \/ CoreTick
    \/ CoreExit

SpecCore == Init /\ [][CoreNext]_vars

\* The values igt_waitchildren gives err for a child that failed: the exit
\* status of the child, or 128 plus the number of the signal that ended it
ChildErr == {"WEXITSTATUS", "128+WTERMSIG"}

\* igt_waitchildren of the body has reaped a child that failed: igt_fail(err)
CoreWaitChildrenFails == CoreBudget /\ InBody /\ \E err \in ChildErr :
    CoreStep([op |-> "waitchildren", pre |-> core, err |-> err,
              printed |-> igt_fail(core, err).printed,
              dumped |-> igt_fail(core, err).dumped],
             Raised(igt_fail(core, err), "FAIL"))

ExitNext ==
    \/ CoreNext
    \/ CoreWaitChildrenFails

SpecExit == Init /\ [][ExitNext]_vars

(* ------------------------------------------------------------------ *)
(* Tests that wait for page-flip events: commit_display of              *)
(* kms_atomic_transition, test_atomic_plane_position_with_output of     *)
(* kms_plane_multiple, flip_vs_cursor of kms_cursor_legacy              *)
(* ------------------------------------------------------------------ *)

FlipFuncs == {"commit_display", "plane_position", "flip_vs_cursor"}

\* enum flip_test
FlipModes == {"legacy", "varying_size", "toggle_visibility", "atomic",
              "atomic_transitions", "atomic_transitions_varying_size"}

\* The event records the DRM descriptor can give and the transient errors of
\* a read that found none
EventTypes == {"FLIP_COMPLETE", "VBLANK"}
TransientErrors == {"EINTR", "EAGAIN"}

hweight32(mask) == Cardinality(mask)

\* cursor_slowpath that takes every mode for a slow one
cursor_slowpath_always(mode) == TRUE

cursor_slowpath(mode) == mode \notin {"legacy", "atomic"}

\* What a step of a test function leaves: its state, and whether an
\* assertion failed ("fail"), a deadline of the given seconds was armed
\* ("arm"), the deadline was reset ("reset") or none of these ("go")
TestRet(t, verdict, seconds) == [test |-> t, verdict |-> verdict, seconds |-> seconds]

\* read(drm_fd): the first record of the queue, or a transient error when
\* the call is interrupted before an event is there
ReadResults(t) ==
    IF t.queue # <<>> THEN {[ret |-> "record", type |-> t.queue[1]]}
    ELSE {[ret |-> e, type |-> "none"] : e \in TransientErrors}

\* The descriptor after the read returned r
Consumed(t, r) ==
    IF r.ret # "record" THEN t
    ELSE [t EXCEPT !.queue = Tail(@), !.nread = @ + 1,
                   !.flips_only = @ /\ r.type = "FLIP_COMPLETE"]

\* commit_display whose loop counts a read that failed as an event
commit_display_read_counts_errors(t, r) ==
    IF r.ret = "record" /\ r.type # "FLIP_COMPLETE" THEN TestRet(t, "fail", 0)
    ELSE IF t.num_events = 1
    THEN TestRet([t EXCEPT !.num_events = 0, !.pc = "done"], "reset", 0)
    ELSE TestRet([t EXCEPT !.num_events = @ - 1], "go", 0)

\* commit_display: the body of its loop after read returned r, and the
\* igt_reset_timeout behind the loop
commit_display_read(t, r) ==
    IF r.ret # "record" THEN TestRet(t, "go", 0)
    ELSE IF r.type # "FLIP_COMPLETE" THEN TestRet(t, "fail", 0)
    ELSE IF t.num_events = 1
    THEN TestRet([t EXCEPT !.num_events = 0, !.pc = "done"], "reset", 0)
    ELSE TestRet([t EXCEPT !.num_events = @ - 1], "go", 0)

\* test_atomic_plane_position_with_output: igt_assert(ret >= 0)
plane_position_read(t, r) ==
    IF r.ret # "record" THEN TestRet(t, "fail", 0)
    ELSE TestRet([t EXCEPT !.pc = "check"], "go", 0)

\* flip_vs_cursor: igt_ignore_warn(read(...))
flip_vs_cursor_read(t, r) == TestRet([t EXCEPT !.pc = "check_end"], "go", 0)

TestReadBy(t, r) ==
    IF t.func = "commit_display" THEN commit_display_read(t, r)
    ELSE IF t.func = "plane_position" THEN plane_position_read(t, r)
    ELSE flip_vs_cursor_read(t, r)

\* The commit of the test function and what follows it up to the read.
\* commit_display commits (non-blocking or not) and arms its deadline; the
\* commit of kms_plane_multiple blocks until the flip is done at the next
\* vblank; flip_nonblocking only queues the flip
TestCommitted(t, nonblocking) ==
    IF t.func = "commit_display"
    THEN IF t.num_events = 0 THEN TestRet([t EXCEPT !.pc = "done"], "reset", 0)
         ELSE IF nonblocking
         THEN TestRet([t EXCEPT !.pending = t.event_mask, !.pc = "read"], "arm", MaxSeconds)
         ELSE TestRet([t EXCEPT !.queue = @ \o [i \in 1 .. t.num_events |-> "FLIP_COMPLETE"],
                               !.frame = @ + 1, !.pc = "read"], "arm", MaxSeconds)
    ELSE IF t.func = "plane_position"
    THEN TestRet([t EXCEPT !.queue = Append(@, "FLIP_COMPLETE"), !.frame = @ + 1,
                           !.pc = "read"], "arm", 1)
    ELSE TestRet([t EXCEPT !.pending = {0}, !.pc = "check_flip"], "go", 0)

\* The assertions on get_vblank(fd, pipe, 0), which returns t.frame
TestChecked(t) ==
    IF t.pc = "check_flip"
    THEN IF t.frame = t.vblank_start
         THEN TestRet([t EXCEPT !.pc = "cursor"], "go", 0) ELSE TestRet(t, "fail", 0)
    ELSE IF t.pc = "check_cursor"
    THEN IF (IF cursor_slowpath(t.mode) THEN t.frame <= t.vblank_start + 1
                                        ELSE t.frame = t.vblank_start)
         THEN TestRet([t EXCEPT !.seen = t.frame, !.pc = "read"], "arm", 1)
         ELSE TestRet(t, "fail", 0)
    ELSE IF t.frame = t.vblank_start + 1 /\ (t.pc = "check" => t.flips_only)
    THEN TestRet([t EXCEPT !.seen_end = t.frame, !.pc = "done"], "reset", 0)
    ELSE TestRet(t, "fail", 0)

\* igt_core.c after the step of the test function
CoreAfter(c, o) ==
    IF o.verdict = "fail" THEN igt_fail(c, "IGT_EXIT_FAILURE").core
    ELSE IF o.verdict = "arm" THEN igt_set_timeout(c, o.seconds)
    ELSE IF o.verdict = "reset" THEN igt_reset_timeout(c)
    ELSE c

FlipStep(rec, t, c) ==
    /\ nops' = nops + 1
    /\ last' = rec
    /\ test' = t
    /\ core' = c
    /\ UNCHANGED <<model_vars, drv_vars, crc, calls>>

\* A step of the test function has left o
TestRan(name, ret, o) ==
    FlipStep([op |-> name, ret |-> ret, pre |-> test],
             IF o.verdict = "fail" THEN [o.test EXCEPT !.pc = "failed"] ELSE o.test,
             CoreAfter(core, o))

FlipBudget == nops < MaxFlipOps /\ core.status = "running"

\* The subtest enters the test function
FlipEnter == FlipBudget /\ test.func = "none" /\
    \E func \in FlipFuncs : \E mode \in FlipModes : \E mask \in SUBSET Pipes :
        /\ func = "flip_vs_cursor" \/ mode = "legacy"
        /\ func = "commit_display" \/ mask = {0}
        /\ FlipStep([op |-> "enter", ret |-> "none", pre |-> test],
                    [test EXCEPT !.func = func, !.mode = mode, !.event_mask = mask,
                                 !.num_events = hweight32(mask),
                                 !.pc = IF func = "commit_display" THEN "commit" ELSE "query"],
                    igt_run_subtest(core).core)

\* vblank_start = get_vblank(fd, pipe, DRM_VBLANK_NEXTONMISS)
TestQuery == FlipBudget /\ test.pc = "query" /\
    TestRan("get_vblank", "none",
            TestRet([test EXCEPT !.vblank_start = test.frame,
                                 !.pc = IF test.func = "plane_position" THEN "commit" ELSE "flip"],
                    "go", 0))

TestCommit == FlipBudget /\ test.pc \in {"commit", "flip"} /\ test.frame < MaxVblank /\
    \E nonblocking \in BOOLEAN :
        /\ test.func = "commit_display" \/ nonblocking = (test.func = "flip_vs_cursor")
        /\ TestRan("commit", "none", TestCommitted(test, nonblocking))

TestCheck == FlipBudget /\ test.pc \in {"check_flip", "check_cursor", "check_end", "check"} /\
    TestRan("check", "none", TestChecked(test))

\* do_ioctl(fd, DRM_IOCTL_MODE_CURSOR, &arg)
TestCursor == FlipBudget /\ test.pc = "cursor" /\
    TestRan("cursor", "none", TestRet([test EXCEPT !.pc = "check_cursor"], "go", 0))

TestRead == FlipBudget /\ test.pc = "read" /\ \E r \in ReadResults(test) :
    TestRan("read", r.ret, TestReadBy(Consumed(test, r), r))

\* A vblank of pipe p: the driver counts it and completes the flip that is
\* pending on the pipe with an event
DrvVblank == FlipBudget /\ test.func # "none" /\ test.frame < MaxVblank /\
    \E p \in Pipes : \E type \in EventTypes :
        /\ p = 0 \/ p \in test.pending
        /\ p \in test.pending \/ type = "FLIP_COMPLETE"
        /\ FlipStep([op |-> "vblank", ret |-> "none", pre |-> test],
                    [test EXCEPT !.frame = IF p = 0 THEN @ + 1 ELSE @,
                                 !.pending = @ \ {p},
                                 !.queue = IF p \in test.pending THEN Append(@, type) ELSE @],
                    core)

\* A second passes while the test function runs
FlipTick == FlipBudget /\ core.in_subtest /\ core.alarm > 0 /\
    FlipStep([op |-> IF core.alarm = 1 THEN "alarm" ELSE "tick", ret |-> "none", pre |-> test],
             IF core.alarm = 1 THEN [test EXCEPT !.pc = "failed"] ELSE test,
             Elapse(core).core)

FlipNext ==
    \/ FlipEnter
    \/ TestQuery
    \/ TestCommit
    \/ TestCheck
    \/ TestCursor
    \/ TestRead
    \/ DrvVblank
    \/ FlipTick

SpecFlip == Init /\ [][FlipNext]_vars

(* ------------------------------------------------------------------ *)
(* A test that forks a helper: two_screens_cursor_vs_flip of            *)
(* kms_cursor_legacy (one iteration of its loop)                        *)
(* ------------------------------------------------------------------ *)

\* The igt_display_t of a process, as far as the test uses it: the process
\* that opened drm_fd, and the mode_changed flag of the second pipe
ForkDisplay == [drm_fd |-> "parent", mode_changed |-> FALSE]

\* The test function entered with the argument modeset: pc and child_pc are
\* where the parent and the forked child are, display and child_display
\* their igt_display_t (the child's is the copy fork made), shared is
\* shared[0], flips the flips the parent has read the event of, inflight the
\* requests the driver has accepted and not completed, queue its events
ForkEntered(modeset) ==
    [func |-> "two_screens_cursor_vs_flip", modeset |-> modeset,
     pc |-> "fork", child_pc |-> "none",
     display |-> ForkDisplay, child_display |-> ForkDisplay,
     shared |-> FALSE, flips |-> 0, inflight |-> {}, queue |-> <<>>]

\* A request to the driver: who issued it and through whose descriptor
Request(by, d, kind, pipe, event) ==
    [by |-> by, fd |-> d.drm_fd, kind |-> kind, pipe |-> pipe, event |-> event]

\* flip_nonblocking(display, pipe, atomic, fb): a page flip with an event,
\* by drmModePageFlip or by a non-blocking atomic commit
flip_nonblocking(by, d, atomic) ==
    Request(by, d, IF atomic THEN "atomic" ELSE "pageflip", 0, TRUE)

\* The first statement of the child: a cursor ioctl on the second pipe, or
\* igt_output_set_pipe on its copy of the display and a non-blocking atomic
\* commit, which clears the flags of the copy
ChildFirst(t) ==
    IF t.modeset
    THEN [req |-> Request("child", t.child_display, "atomic", 1, FALSE),
          display |-> [t.child_display EXCEPT !.mode_changed = FALSE]]
    ELSE [req |-> Request("child", t.child_display, "cursor", 1, FALSE),
          display |-> t.child_display]

\* The driver has taken the request: a cursor ioctl is done when it returns,
\* a flip and a non-blocking commit stay in flight
Issued(t, req) ==
    IF req.kind = "cursor" THEN t ELSE [t EXCEPT !.inflight = @ \cup {req}]

ForkStep(rec, t) ==
    /\ nops' = nops + 1
    /\ last' = rec
    /\ test' = t
    /\ UNCHANGED <<model_vars, drv_vars, crc, core, calls>>

\* The process by has made the driver call req
ForkCall(t, req) ==
    ForkStep([op |-> "call", by |-> req.by, req |-> req, pre |-> test], Issued(t, req))

ForkBudget == nops < MaxForkOps
InFork == test.func = "two_screens_cursor_vs_flip"

ForkEnter == ForkBudget /\ test.func = "none" /\ \E modeset \in BOOLEAN :
    ForkStep([op |-> "enter", by |-> "parent", pre |-> test], ForkEntered(modeset))

\* igt_fork(child, 1): the child starts with a copy of the parent's memory
\* and descriptors
ParentFork == ForkBudget /\ InFork /\ test.pc = "fork" /\
    ForkStep([op |-> "fork", by |-> "parent", pre |-> test],
             [test EXCEPT !.pc = "flip", !.child_pc = "first",
                          !.child_display = test.display])

ParentFlip == ForkBudget /\ InFork /\ test.pc = "flip" /\
    ForkCall([test EXCEPT !.pc = "read"],
             flip_nonblocking("parent", test.display, test.modeset))

\* read(display->drm_fd, &vbl, sizeof(vbl)) returns the event of the flip
ParentRead == ForkBudget /\ InFork /\ test.pc = "read" /\ test.queue # <<>> /\
    ForkStep([op |-> "read", by |-> "parent", pre |-> test],
             [test EXCEPT !.queue = Tail(@), !.flips = @ + 1,
                          !.pc = IF test.flips + 1 < MaxFlips THEN "flip" ELSE "signal"])

\* shared[0] = 1; igt_waitchildren()
ParentSignal == ForkBudget /\ InFork /\ test.pc = "signal" /\
    ForkStep([op |-> "signal", by |-> "parent", pre |-> test],
             [test EXCEPT !.shared = TRUE, !.pc = "wait"])

ParentWait == ForkBudget /\ InFork /\ test.pc = "wait" /\ test.child_pc = "exited" /\
    ForkStep([op |-> "waitchildren", by |-> "parent", pre |-> test],
             [test EXCEPT !.pc = "done"])

ChildStart == ForkBudget /\ InFork /\ test.child_pc = "first" /\
    ForkCall([test EXCEPT !.child_pc = "loop", !.child_display = ChildFirst(test).display],
             ChildFirst(test).req)

\* while (!shared[0]) do_ioctl(display->drm_fd, DRM_IOCTL_MODE_CURSOR, &arg)
ChildLoop == ForkBudget /\ InFork /\ test.child_pc = "loop" /\
    IF test.shared
    THEN ForkStep([op |-> "exit", by |-> "child", pre |-> test],
                  [test EXCEPT !.child_pc = "exited"])
    ELSE ForkCall(test, Request("child", test.child_display, "cursor", 0, FALSE))

\* The driver completes a request that is in flight
DrvComplete == ForkBudget /\ InFork /\ \E req \in test.inflight :
    ForkStep([op |-> "complete", by |-> "driver", pre |-> test],
             [test EXCEPT !.inflight = @ \ {req},
                          !.queue = IF req.event THEN Append(@, "FLIP_COMPLETE") ELSE @])

ForkNext ==
    \/ ForkEnter
    \/ ParentFork
    \/ ParentFlip
    \/ ParentRead
    \/ ParentSignal
    \/ ParentWait
    \/ ChildStart
    \/ ChildLoop
    \/ DrvComplete

SpecFork == Init /\ [][ForkNext]_vars

(* ------------------------------------------------------------------ *)
(* The name-to-id tables of the atomic properties                       *)
(* ------------------------------------------------------------------ *)

\* igt_connector_prop_names, and the id the driver has for each
igt_connector_prop_names == {"scaling mode", "CRTC_ID"}
ConnectorPropId(name) == IF name = "scaling mode" THEN 1 ELSE 2

\* The table in the display zeroed by igt_display_init
NoProps == [n \in igt_connector_prop_names |-> 0]

\* igt_atomic_fill_connector_props: the entry of every name the driver lists
\* is written, the entry of any other name is left as it is
igt_atomic_fill_connector_props(table, listed) ==
    [n \in igt_connector_prop_names |->
        IF n \in listed THEN ConnectorPropId(n) ELSE table[n]]

\* igt_display_init for one pipe, one plane and one output: fills counts the
\* calls of the igt_atomic_fill_*_props function of each kind of object,
\* listed is what the driver listed for the connector at the latest call
PropsInitial(atomic, listed) ==
    [func |-> "props", is_atomic |-> atomic,
     atomic_props_connector |-> igt_atomic_fill_connector_props(NoProps, listed),
     listed |-> listed,
     fills |-> [plane |-> IF atomic THEN 1 ELSE 0, crtc |-> 1, connector |-> 1]]

\* igt_output_refresh on a display whose connector is present
PropsRefreshed(t, listed) ==
    [t EXCEPT !.atomic_props_connector = igt_atomic_fill_connector_props(@, listed),
              !.listed = listed,
              !.fills.connector = @ + 1]

PropsStep(rec, t) ==
    /\ nops' = nops + 1
    /\ last' = rec
    /\ test' = t
    /\ UNCHANGED <<model_vars, drv_vars, crc, core, calls>>

PropsInit == test.func = "none" /\
             \E atomic \in BOOLEAN, listed \in SUBSET igt_connector_prop_names :
    PropsStep([op |-> "igt_display_init", pre |-> test], PropsInitial(atomic, listed))

\* igt_output_set_pipe, igt_display_commit and igt_output_set_scaling_mode
\* refresh the output
PropsRefresh == test.func = "props" /\ test.fills.connector <= MaxRefreshes /\
                \E by \in {"igt_output_set_pipe", "igt_display_commit"},
                   listed \in SUBSET igt_connector_prop_names :
    PropsStep([op |-> "igt_output_refresh", by |-> by, pre |-> test],
              PropsRefreshed(test, listed))

PropsNext ==
    \/ PropsInit
    \/ PropsRefresh

SpecProps == Init /\ [][PropsNext]_vars

(* ------------------------------------------------------------------ *)
(* The plane array igt_display_init builds for a pipe                   *)
(* ------------------------------------------------------------------ *)

\* A slot of pipe->planes in the zeroed display
NoPlane == [drm_plane |-> FALSE, is_primary |-> FALSE, is_cursor |-> FALSE, index |-> 0]

\* pipe->planes behind the loop over the planes the driver reports for the
\* pipe: a primary plane, overlays from IGT_PLANE_2 up and, when cursor, a
\* cursor plane parked in the slot IGT_PLANE_CURSOR
PlanesReported(overlays, cursor) ==
    [i \in 0 .. IGT_PLANE_CURSOR |->
        IF i = IGT_PLANE_PRIMARY
        THEN [NoPlane EXCEPT !.drm_plane = TRUE, !.is_primary = TRUE, !.index = i]
        ELSE IF i <= overlays
        THEN [NoPlane EXCEPT !.drm_plane = TRUE, !.index = i]
        ELSE IF i = IGT_PLANE_CURSOR /\ cursor
        THEN [NoPlane EXCEPT !.drm_plane = TRUE, !.is_cursor = TRUE, !.index = i]
        ELSE NoPlane]

\* The cursor slot settled behind the loop: p is the slot behind the last
\* overlay.  When the display has a cursor plane on some pipe so far, the
\* slot IGT_PLANE_CURSOR of this pipe is moved down to p and zeroed;
\* otherwise a cursor without a drm_plane is put at p
CursorPlaced(pl, p, has_cursor_plane) ==
    IF has_cursor_plane
    THEN IF p # IGT_PLANE_CURSOR
         THEN [pl EXCEPT ![p] = [pl[IGT_PLANE_CURSOR] EXCEPT !.index = p],
                         ![IGT_PLANE_CURSOR] = NoPlane]
         ELSE pl
    ELSE [pl EXCEPT ![p] = [@ EXCEPT !.index = p, !.is_cursor = TRUE]]

\* One iteration of the loop of igt_display_init over the pipes: n_planes
\* counts the planes the driver reported for the pipe
igt_display_init_pipe(overlays, cursor, has_cursor_plane) ==
    [planes |-> CursorPlaced(PlanesReported(overlays, cursor), IGT_PLANE_PRIMARY + 1 + overlays,
                             has_cursor_plane \/ cursor),
     n_planes |-> 1 + overlays + (IF cursor THEN 1 ELSE 0),
     overlays |-> overlays, cursor |-> cursor]

\* igt_pipe_get_plane on a pipe with n planes
igt_pipe_get_plane_on(n, plane) ==
    IF plane = IGT_PLANE_CURSOR THEN [ok |-> TRUE, idx |-> n - 1]
    ELSE IF plane >= 0 /\ plane < n THEN [ok |-> TRUE, idx |-> plane]
    ELSE [ok |-> FALSE, idx |-> -1]

\* The display while igt_display_init runs and after it: the pipes set up so
\* far, and has_cursor_plane of the display
InitStarted == [func |-> "igt_display_init", has_cursor_plane |-> FALSE,
                pipes |-> <<>>, gets |-> 0]

InitSoFar == IF test.func = "none" THEN InitStarted ELSE test

PlanesStep(rec, t) ==
    /\ nops' = nops + 1
    /\ last' = rec
    /\ test' = t
    /\ UNCHANGED <<model_vars, drv_vars, crc, core, calls>>

PlanesInitPipe ==
    /\ test.func \in {"none", "igt_display_init"}
    /\ Len(InitSoFar.pipes) < n_pipes
    /\ \E overlays \in 0 .. MaxOverlays, cursor \in BOOLEAN :
          PlanesStep([op |-> "init_pipe", pipe |-> Len(InitSoFar.pipes)],
                     [InitSoFar EXCEPT
                        !.has_cursor_plane = @ \/ cursor,
                        !.pipes = Append(@, igt_display_init_pipe(overlays, cursor,
                                                InitSoFar.has_cursor_plane))])

PlanesGetPlane ==
    /\ test.func = "igt_display_init"
    /\ Len(test.pipes) = n_pipes
    /\ test.gets < MaxGetPlanes
    /\ \E p \in Pipes, plane \in {IGT_PLANE_PRIMARY, 1, 2, IGT_PLANE_CURSOR} :
          PlanesStep([op |-> "get_plane", pipe |-> p, kind |-> plane,
                      got |-> igt_pipe_get_plane_on(test.pipes[p + 1].n_planes, plane)],
                     [test EXCEPT !.gets = @ + 1])

PlanesNext ==
    \/ PlanesInitPipe
    \/ PlanesGetPlane

SpecPlanes == Init /\ [][PlanesNext]_vars

(* ------------------------------------------------------------------ *)
(* Routing of outputs to pipes on hardware whose connectors cannot be   *)
(* driven by every pipe                                                 *)
(* ------------------------------------------------------------------ *)

\* config->valid_crtc_idx_mask of the connectors: the pipes the encoders of
\* each connector can be driven by
ValidMasks == [Outputs -> SUBSET Pipes \ {{}}]

\* _kmstest_connector_config for a connector whose valid_crtc_idx_mask is
\* valid: config->pipe
connector_config_pipe(valid, crtc_idx_mask) ==
    IF crtc_idx_mask \cap valid = {} THEN PIPE_NONE
    ELSE ffs_minus_1(crtc_idx_mask \cap valid)

\* igt_output_refresh of the output o
output_refresh(t, o, final) ==
    LET mask == IF final THEN t.outputs[o].pending_crtc_idx_mask \ t.pipes_in_use
                ELSE t.outputs[o].pending_crtc_idx_mask
        pipe == connector_config_pipe(t.valid[o], mask)
    IN  [t EXCEPT !.outputs[o].pipe = pipe,
                  !.pipes_in_use = IF final /\ pipe # PIPE_NONE
                                   THEN @ \cup {pipe} ELSE @]

\* The loop of igt_display_refresh over the outputs from index o on
RECURSIVE display_refresh_from(_, _)
display_refresh_from(t, o) ==
    IF o >= n_outputs THEN t
    ELSE display_refresh_from(output_refresh(t, o, TRUE), o + 1)

\* The MODE_ID / ACTIVE and CRTC_ID properties of the first atomic commit
\* after igt_display_init, when mode_changed of every pipe and pipe_changed
\* of every output are set: the pipes set active, and the pipe whose CRTC
\* each connector is given
RouteRequest(t) ==
    [active |-> {p \in Pipes : igt_pipe_get_output(t.outputs, p) # -1},
     crtc |-> [o \in Outputs |-> t.outputs[o].pipe]]

\* The display after igt_display_init on hardware with the masks valid
RouteEntered(valid) ==
    [func |-> "route", valid |-> valid, pc |-> "mutate",
     outputs |-> [o \in Outputs |-> [pending_crtc_idx_mask |-> {}, pipe |-> PIPE_NONE]],
     pipes_in_use |-> {}, sets |-> 0, request |-> [active |-> {}, crtc |-> <<>>]]

RouteStep(rec, t) ==
    /\ nops' = nops + 1
    /\ last' = rec
    /\ test' = t
    /\ UNCHANGED <<model_vars, drv_vars, crc, core, calls>>

RouteEnter == test.func = "none" /\ \E valid \in ValidMasks :
    RouteStep([op |-> "igt_display_init"], RouteEntered(valid))

\* igt_output_set_pipe(output, pipe)
RouteSetPipe ==
    /\ test.func = "route" /\ test.pc = "mutate" /\ test.sets < MaxSetPipes
    /\ \E o \in Outputs, pipe \in Pipes \cup {PIPE_NONE} :
          RouteStep([op |-> "set_pipe", output |-> o, pipe |-> pipe],
                    output_refresh([test EXCEPT
                                      !.outputs[o].pending_crtc_idx_mask = SetPipeMask(pipe),
                                      !.sets = @ + 1],
                                   o, FALSE))

\* igt_display_commit_atomic: igt_display_refresh, then the request is built
RouteCommit ==
    /\ test.func = "route" /\ test.pc = "mutate"
    /\ IF RefreshAssertOk(test.outputs)
       THEN LET t == display_refresh_from([test EXCEPT !.pipes_in_use = {}], 0)
            IN  RouteStep([op |-> "route_commit", outcome |-> "ret"],
                          [t EXCEPT !.pc = "committed", !.request = RouteRequest(t)])
       ELSE RouteStep([op |-> "route_commit", outcome |-> "abort"],
                      [test EXCEPT !.pc = "aborted"])

RouteNext ==
    \/ RouteEnter
    \/ RouteSetPipe
    \/ RouteCommit

SpecRoute == Init /\ [][RouteNext]_vars

(* ------------------------------------------------------------------ *)
(* A display whose driver did not negotiate atomic support              *)
(* ------------------------------------------------------------------ *)

\* igt_display_init when drmSetClientCap(DRM_CLIENT_CAP_ATOMIC) failed:
\* display->is_atomic stays 0
NonAtomicInit ==
    /\ last.op = "init"
    /\ is_atomic' = FALSE
    /\ last' = [op |-> "display_init"]
    /\ UNCHANGED <<planes, pipes, outputs, pipes_in_use, drv_vars, crc, core, test,
                   calls, nops>>

NonAtomicSetPipe == ~is_atomic /\ SetPipe
NonAtomicSetFb == ~is_atomic /\ SetFb
NonAtomicSetLut == ~is_atomic /\ SetLut
NonAtomicCommit2 == ~is_atomic /\ Commit2
NonAtomicTryCommit2 == ~is_atomic /\ TryCommit2
NonAtomicTryCommitAtomic == ~is_atomic /\ TryCommitAtomic
NonAtomicCommitAtomic == ~is_atomic /\ CommitAtomic

NonAtomicNext ==
    \/ NonAtomicInit
    \/ NonAtomicSetPipe
    \/ NonAtomicSetFb
    \/ NonAtomicSetLut
    \/ NonAtomicCommit2
    \/ NonAtomicTryCommit2
    \/ NonAtomicTryCommitAtomic
    \/ NonAtomicCommitAtomic

SpecNonAtomic == Init /\ [][NonAtomicNext]_vars

(* ------------------------------------------------------------------ *)
(* setup_parms of kms_atomic_transition: the search for the sprite size *)
(* ------------------------------------------------------------------ *)

\* set_sprite_wh: the size of the overlay planes in parms and the sprite
\* framebuffer
set_sprite_wh(t, w, h) ==
    [t EXCEPT !.parms = <<w, h>>, !.sprite_fb = <<w, h, t.alpha>>]

\* setup_parms at the label retry
SpriteRetry(t) ==
    [t EXCEPT !.prev_w = t.cursor_width, !.sprite_width = t.cursor_width,
              !.prev_h = t.cursor_height, !.sprite_height = t.cursor_height,
              !.max_sprite_width = (t.cursor_width = t.hdisplay),
              !.max_sprite_height = (t.cursor_height = t.vdisplay)]

\* setup_parms up to the loop, for a pipe with overlay planes: the cursor
\* size is the driver's cap, at most the mode size.  probed and accepted are
\* the sizes and formats the TEST_ONLY commit was given and the ones it
\* accepted, restarts the jumps back to retry, odd whether the passes of
\* the loop body so far are odd in number
SpriteEntered(hdisplay, vdisplay, cap_w, cap_h) ==
    SpriteRetry(
        [func |-> "setup_parms", pc |-> "loop",
         hdisplay |-> hdisplay, vdisplay |-> vdisplay,
         cursor_width |-> Min({cap_w, hdisplay}),
         cursor_height |-> Min({cap_h, vdisplay}),
         alpha |-> TRUE,
         prev_w |-> 0, prev_h |-> 0, sprite_width |-> 0, sprite_height |-> 0,
         max_sprite_width |-> FALSE, max_sprite_height |-> FALSE,
         parms |-> <<0, 0>>,
         sprite_fb |-> <<Min({cap_w, hdisplay}), Min({cap_h, vdisplay}), TRUE>>,
         probed |-> {}, accepted |-> {}, restarts |-> 0, odd |-> FALSE])

\* The end of the loop body: the next size to try, or the break
SpriteGrow(t) ==
    IF ~t.max_sprite_width
    THEN IF t.sprite_width * 2 >= t.hdisplay
         THEN [t EXCEPT !.max_sprite_width = TRUE, !.sprite_width = t.hdisplay]
         ELSE [t EXCEPT !.sprite_width = @ * 2]
    ELSE IF ~t.max_sprite_height
    THEN IF t.sprite_height * 2 >= t.vdisplay
         THEN [t EXCEPT !.max_sprite_height = TRUE, !.sprite_height = t.vdisplay]
         ELSE [t EXCEPT !.sprite_height = @ * 2]
    ELSE [t EXCEPT !.pc = "done"]

\* A rejection that leaves the flags as they are
SpriteGivesUpKeepsFlags(t) == t

\* A rejected size ends the doubling of the width, or else of the height
SpriteGivesUp(t) ==
    IF ~t.max_sprite_width THEN [t EXCEPT !.max_sprite_width = TRUE]
    ELSE [t EXCEPT !.max_sprite_height = TRUE]

\* The branch ret == -EINVAL of the loop body
SpriteRejected(t) ==
    IF t.cursor_width = t.sprite_width /\ t.cursor_height = t.sprite_height
    THEN IF t.alpha
         THEN SpriteRetry([t EXCEPT !.alpha = FALSE, !.restarts = @ + 1])
         ELSE [t EXCEPT !.pc = "aborted"]
    ELSE IF t.max_sprite_width /\ t.max_sprite_height
    THEN [set_sprite_wh([t EXCEPT !.sprite_width = t.prev_w, !.sprite_height = t.prev_h],
                        t.prev_w, t.prev_h)
             EXCEPT !.pc = "done"]
    ELSE SpriteGrow(SpriteGivesUp([t EXCEPT !.sprite_width = t.prev_w,
                                            !.sprite_height = t.prev_h]))

\* One pass of the loop body: set_sprite_wh, the TEST_ONLY commit with all
\* planes enabled, and what follows from its answer
SpriteProbed(t, einval) ==
    LET size == <<t.sprite_width, t.sprite_height, t.alpha>>
        t1 == [set_sprite_wh(t, t.sprite_width, t.sprite_height)
                  EXCEPT !.odd = ~@,
                         !.probed = @ \cup {size},
                         !.accepted = IF einval THEN @ \ {size} ELSE @ \cup {size}]
    IN  IF einval THEN SpriteRejected(t1)
        ELSE SpriteGrow([t1 EXCEPT !.prev_w = t.sprite_width, !.prev_h = t.sprite_height])

SpriteStep(rec, t) ==
    /\ last' = rec
    /\ test' = t
    /\ UNCHANGED <<model_vars, drv_vars, crc, core, calls, nops>>

SpriteEnter ==
    /\ test.func = "none"
    /\ \E hdisplay \in 1 .. MaxMode, vdisplay \in 1 .. MaxMode,
          cap_w \in 1 .. MaxCursor, cap_h \in 1 .. MaxCursor :
          SpriteStep([op |-> "setup_parms"],
                     SpriteEntered(hdisplay, vdisplay, cap_w, cap_h))

SpriteProbe ==
    /\ test.func = "setup_parms" /\ test.pc = "loop"
    /\ \E einval \in BOOLEAN :
          SpriteStep([op |-> "probe", einval |-> einval, pre |-> test],
                     SpriteProbed(test, einval))

SpriteNext ==
    \/ SpriteEnter
    \/ SpriteProbe

SpecSprite == Init /\ [][SpriteNext]_vars

\* The loop body runs to its end whenever it is entered
SpecSpriteFair == SpecSprite /\ WF_vars(SpriteProbe)

(* ------------------------------------------------------------------ *)
(* The reference checksum of the multi-plane position test              *)
(* ------------------------------------------------------------------ *)

\* An igt_crc_t zeroed by an initializer or by calloc
ZeroCrc == [n_words |-> 0, crc |-> [i \in 1 .. MaxWords |-> 0]]

\* The records igt_pipe_crc_get_crcs can store in the array it allocates
\* with calloc and hands back through out_crcs
CapturedCrcs(legacy) ==
    {p.crc : p \in {q \in {pipe_crc_init_from_string(legacy, ZeroCrc.crc, line) :
                                line \in CrcLines} : q.ok}}

\* test_grab_crc(..., crc) called with crc pointing to reference_crc, when
\* the frame captured has the checksum captured: igt_pipe_crc_get_crcs is
\* given &crc, the address of the parameter, and makes the parameter point
\* to its array; pointee is what the caller's record holds on return, local
\* what the parameter points to
test_grab_crc(reference_crc, captured) ==
    [pointee |-> reference_crc, local |-> captured]

\* test_position_t test = { .data = data }
PositionEntered(legacy) ==
    [func |-> "test_atomic_plane_position_with_output", pc |-> "grab",
     is_legacy |-> legacy, reference_crc |-> ZeroCrc, solid |-> ZeroCrc, i |-> 0]

PositionStep(rec, t) ==
    /\ nops' = nops + 1
    /\ last' = rec
    /\ test' = t
    /\ UNCHANGED <<model_vars, drv_vars, crc, core, calls>>

InPosition == test.func = "test_atomic_plane_position_with_output"

PositionEnter == test.func = "none" /\ \E legacy \in BOOLEAN :
    PositionStep([op |-> "test_init"], PositionEntered(legacy))

\* test_grab_crc(data, output, pipe, true, &blue, tiling, &test.reference_crc):
\* solid is the checksum captured from the solid-colour frame
PositionGrab == InPosition /\ test.pc = "grab" /\
    \E captured \in CapturedCrcs(test.is_legacy) :
        PositionStep([op |-> "test_grab_crc", captured |-> captured],
                     [test EXCEPT !.pc = "loop", !.solid = captured,
                                  !.reference_crc =
                                      test_grab_crc(test.reference_crc, captured).pointee])

\* One iteration of the loop: the composed frame is captured and compared
\* with the reference
PositionIterate == InPosition /\ test.pc = "loop" /\ test.i < MaxIterations /\
    \E frame \in CapturedCrcs(test.is_legacy) :
        PositionStep([op |-> "compare", frame |-> frame,
                      outcome |-> IF igt_assert_crc_equal(test.reference_crc, frame)
                                  THEN "ret" ELSE "abort"],
                     [test EXCEPT !.i = @ + 1,
                                  !.pc = IF igt_assert_crc_equal(test.reference_crc, frame)
                                         THEN "loop" ELSE "aborted"])

PositionNext ==
    \/ PositionEnter
    \/ PositionGrab
    \/ PositionIterate

SpecPosition == Init /\ [][PositionNext]_vars

(* ------------------------------------------------------------------ *)
(* igt_fork and igt_waitchildren                                        *)
(* ------------------------------------------------------------------ *)

SIGABRT == 6
SIGKILL == 9

\* How a child forked by igt_fork ends by itself: exit(0) behind its body,
\* exit(exitcode) in igt_fail, or a signal such as the abort of a failed
\* assert
ChildEnds == {[kind |-> "exit", code |-> 0], [kind |-> "exit", code |-> 1],
              [kind |-> "signal", code |-> SIGABRT]}

Killed == [kind |-> "signal", code |-> SIGKILL]

\* status != 0 of igt_waitchildren, and the value err is given
StatusFails(st) == ~(st.kind = "exit" /\ st.code = 0)
StatusErr(st) == IF st.kind = "exit" THEN st.code ELSE 128 + st.code

\* err taking the code of every child that failed
WaitErrLatest(err, st) == IF StatusFails(st) THEN StatusErr(st) ELSE err

\* err of igt_waitchildren behind a wait that returned the status st
WaitErr(err, st) == IF err = 0 /\ StatusFails(st) THEN StatusErr(st) ELSE err

\* kill(test_children[c], SIGKILL) for every child: the ones that run die
KillAll(children) ==
    [c \in DOMAIN children |->
        IF children[c].state = "running"
        THEN [state |-> "ended", st |-> Killed] ELSE children[c]]

\* The parent in a subtest: children are the processes of test_children,
\* reaped the statuses wait() has returned in igt_waitchildren, in order
WaitEntered ==
    [func |-> "igt_waitchildren", pc |-> "body", children |-> <<>>,
     num_test_children |-> 0, count |-> 0, err |-> 0, reaped |-> <<>>, exitcode |-> 0]

WaitStep(rec, t) ==
    /\ last' = rec
    /\ test' = t
    /\ UNCHANGED <<model_vars, drv_vars, crc, core, calls, nops>>

InWait == test.func = "igt_waitchildren"

WaitEnter == test.func = "none" /\ WaitStep([op |-> "run_subtest"], WaitEntered)

\* __igt_fork in the parent
WaitFork == InWait /\ test.pc = "body" /\ test.num_test_children < MaxChildren /\
    WaitStep([op |-> "igt_fork"],
             [test EXCEPT !.children = Append(@, [state |-> "running", st |-> Killed]),
                          !.num_test_children = @ + 1])

\* A child ends by itself
WaitChildEnds == InWait /\ \E c \in DOMAIN test.children : \E st \in ChildEnds :
    /\ test.children[c].state = "running"
    /\ WaitStep([op |-> "child_ends", child |-> c],
                [test EXCEPT !.children[c] = [state |-> "ended", st |-> st]])

\* igt_waitchildren up to its loop
WaitCall == InWait /\ test.pc = "body" /\
    WaitStep([op |-> "igt_waitchildren"],
             [test EXCEPT !.pc = "wait", !.count = 0, !.err = 0, !.reaped = <<>>])

\* One pass of the loop in which wait() returns a child of test_children
WaitReap == InWait /\ test.pc = "wait" /\ test.count < test.num_test_children /\
    \E c \in DOMAIN test.children :
        /\ test.children[c].state = "ended"
        /\ LET st == test.children[c].st
               rest == [test.children EXCEPT ![c].state = "reaped"]
           IN  WaitStep([op |-> "wait", child |-> c, st |-> st],
                        [test EXCEPT
                           !.children = IF test.err = 0 /\ StatusFails(st)
                                        THEN KillAll(rest) ELSE rest,
                           !.err = WaitErr(@, st),
                           !.reaped = Append(@, st),
                           !.count = @ + 1])

\* The end of igt_waitchildren: igt_fail(err) ends the subtest, a return
\* lets the body go on
WaitDone == InWait /\ test.pc = "wait" /\ test.count >= test.num_test_children /\
    WaitStep([op |-> "waited", pre |-> test],
             IF test.err # 0
             THEN [test EXCEPT !.num_test_children = 0, !.pc = "failed", !.exitcode = test.err]
             ELSE [test EXCEPT !.num_test_children = 0, !.pc = "body", !.children = <<>>])

WaitNext ==
    \/ WaitEnter
    \/ WaitFork
    \/ WaitChildEnds
    \/ WaitCall
    \/ WaitReap
    \/ WaitDone

SpecWait == Init /\ [][WaitNext]_vars

\* Every child ends, and the parent goes on in igt_waitchildren
SpecWaitFair ==
    SpecWait /\ WF_vars(WaitChildEnds) /\ WF_vars(WaitReap) /\ WF_vars(WaitDone)

(* ------------------------------------------------------------------ *)
(* Properties                                                          *)
(* ------------------------------------------------------------------ *)

\* Two distinct outputs pend on the same pipe
SamePipeTwice(outs) ==
    \E a \in Outputs : \E b \in Outputs :
        /\ a # b
        /\ outs[a].pending_crtc_idx_mask # {}
        /\ outs[a].pending_crtc_idx_mask = outs[b].pending_crtc_idx_mask

\* do_display_commit returned 0 and the commit was not TEST_ONLY
CommitSucceeded(l) ==
    l.op = "commit" /\ l.outcome = "ret" /\ l.inner = 0 /\ ~l.test_only

\* C1: when two distinct outputs pend on the same pipe, every commit entry
\* point aborts in the assertion of igt_display_refresh, before any driver
\* call is issued and with the driver state untouched.
C1_SamePipeAborts ==
    [][(SamePipeTwice(outputs) /\ last'.op = "commit")
         => /\ last'.outcome = "abort"
            /\ last'.what = "refresh"
            /\ calls' = <<>>
            /\ UNCHANGED <<outputs, drv_vars>>]_vars

C1_Witness ==
    /\ last.op = "commit"
    /\ last.entry = "try_commit2"
    /\ last.what = "refresh"
    /\ SamePipeTwice(outputs)

\* C2 as stated: after a commit of any style that succeeded and was not
\* TEST_ONLY, the four dirty flags of every plane are false.
C2_AllPlaneFlagsClear ==
    CommitSucceeded(last) =>
        \A id \in PlaneIds :
            /\ ~planes[id].fb_changed
            /\ ~planes[id].position_changed
            /\ ~planes[id].size_changed
            /\ ~planes[id].rotation_changed

\* C2 amended: after a commit that succeeded and was not TEST_ONLY,
\* fb_changed, position_changed and size_changed of every plane are false, and
\* rotation_changed is false for every plane except the primary and cursor
\* planes under the legacy style.
C2_PlaneFlagsClear ==
    CommitSucceeded(last) =>
        \A id \in PlaneIds :
            /\ ~planes[id].fb_changed
            /\ ~planes[id].position_changed
            /\ ~planes[id].size_changed
            /\ (last.style # "LEGACY" \/ ~(is_primary(id[2]) \/ is_cursor(id[2])))
                  => ~planes[id].rotation_changed

\* A universal commit cleared a pending rotation of an overlay plane
C2_Witness ==
    /\ CommitSucceeded(last)
    /\ last.style = "UNIVERSAL"
    /\ \E id \in PlaneIds :
          /\ planes[id].rotation = 180
          /\ ~planes[id].rotation_changed
          /\ \E n \in 1 .. Len(calls) :
                calls[n].call = "PlaneSetProperty" /\ calls[n].pipe = id[1]
                /\ calls[n].slot = id[2]

\* C3 as stated, for the destination size: when a commit that succeeded
\* cleared size_changed of a plane that has a framebuffer, the driver's
\* destination size of that plane is the size the model holds.  The primary
\* plane under the legacy style is left out: its set-CRTC call carries no size.
C3_ClearedSizeSent ==
    [][CommitSucceeded(last') =>
         \A id \in PlaneIds :
            (/\ planes[id].fb.fb_id # 0
             /\ planes[id].size_changed
             /\ ~planes'[id].size_changed
             /\ ~(is_primary(id[2]) /\ last'.style = "LEGACY"))
            => /\ drv_plane'[id].crtc_w = planes[id].crtc_w
               /\ drv_plane'[id].crtc_h = planes[id].crtc_h]_vars

\* The dirty flags that are set
PlaneFlags == {"fb_changed", "position_changed", "size_changed", "rotation_changed"}
PipeFlags == {"mode_changed", "color_mgmt_changed", "background_changed"}
OutputFlags == {"pipe_changed", "connector_scaling_mode_changed"}
SetFlags(pls, pps, outs) ==
    {x \in {"plane"} \X PlaneIds \X PlaneFlags : pls[x[2]][x[3]]}
    \cup {x \in {"pipe"} \X Pipes \X PipeFlags : pps[x[2]][x[3]]}
    \cup {x \in {"output"} \X Outputs \X OutputFlags : outs[x[2]][x[3]]}

\* C4: a dirty flag of a plane, a pipe or an output goes from set to clear
\* only in a commit that is not TEST_ONLY and that succeeded; mutators,
\* TEST_ONLY commits and commits that fail or abort leave every set flag set.
C4_FlagsClearedOnlyBySuccess ==
    [][(SetFlags(planes, pipes, outputs) \ SetFlags(planes', pipes', outputs') # {})
          => CommitSucceeded(last')]_vars

\* A legacy commit failed at a driver call part of the way and the flags set
\* before it are still set
C4_Witness ==
    /\ last.op = "commit"
    /\ last.style = "LEGACY"
    /\ last.outcome = "ret"
    /\ last.inner # 0
    /\ Len(calls) > 1
    /\ \E id \in PlaneIds : planes[id].position_changed /\ planes[id].fb_changed

\* C5 as stated: an atomic commit with TEST_ONLY leaves the mode blob id of
\* every pipe and the set of property blobs alive in the driver as they were.
C5_TestOnlyKeepsBlobs ==
    [][(last'.op = "commit" /\ last'.test_only)
          => /\ \A p \in Pipes : pipes'[p].mode_blob = pipes[p].mode_blob
             /\ DOMAIN blobs' = DOMAIN blobs]_vars

\* The mode blobs of the pipes whose mode_changed is set
PendingModeBlobs(pps) == {pps[p].mode_blob : p \in {q \in Pipes : pps[q].mode_changed}}

\* C5 amended: an atomic commit with TEST_ONLY leaves every dirty flag, the
\* state the driver has programmed, the colour blobs and the mode blob of
\* every pipe whose mode_changed is clear as they were; for a pipe whose
\* mode_changed is set it destroys the mode blob and, when an output is routed
\* to the pipe, creates a new one, so only those blobs differ afterwards.
C5_TestOnlyReplacesModeBlobs ==
    [][(last'.op = "commit" /\ last'.test_only)
          => /\ SetFlags(planes', pipes', outputs') = SetFlags(planes, pipes, outputs)
             /\ UNCHANGED <<planes, drv_plane, drv_crtc, drv_conn>>
             /\ \A p \in Pipes :
                   /\ ~pipes[p].mode_changed => pipes'[p] = pipes[p]
                   /\ pipes'[p] = [pipes[p] EXCEPT !.mode_blob = pipes'[p].mode_blob]
             /\ DOMAIN blobs' \ PendingModeBlobs(pipes')
                   = DOMAIN blobs \ PendingModeBlobs(pipes)]_vars

\* A TEST_ONLY commit the driver accepted gave a pipe a mode blob
C5_Witness ==
    /\ last.op = "commit"
    /\ last.test_only
    /\ last.inner = 0
    /\ \E p \in Pipes : pipes[p].mode_changed /\ pipes[p].mode_blob # 0
                        /\ pipes[p].mode_blob \in DOMAIN blobs

\* The driver calls of the last operation that returned non-zero
FailedCalls == {n \in 1 .. Len(calls) : calls[n].ret # 0}

\* A commit of the legacy or the universal-plane style
PlaneStyleCommit(l) == l.op = "commit" /\ l.style \in {"LEGACY", "UNIVERSAL"}

\* C6 as stated: when a driver call of a legacy or universal-plane commit
\* returns non-zero (a CRTC property call included), no driver call follows
\* it; with fail_on_error false the commit returns that call's code, with
\* fail_on_error true the test aborts there.
C6_StopsAtFirstFailure ==
    (PlaneStyleCommit(last) /\ FailedCalls # {}) =>
        /\ Min(FailedCalls) = Len(calls)
        /\ IF last.fail_on_error
           THEN last.outcome = "abort"
           ELSE last.outcome = "ret" /\ last.inner = calls[Min(FailedCalls)].ret

\* The primary plane of pipe p is windowed or has a rotation pending
PrimaryUnfit(pls, p) ==
    \/ pls[<<p, IGT_PLANE_PRIMARY>>].crtc_x # 0
    \/ pls[<<p, IGT_PLANE_PRIMARY>>].crtc_y # 0
    \/ pls[<<p, IGT_PLANE_PRIMARY>>].rotation_changed

\* C7 as stated: a legacy commit in which the primary plane of some pipe is
\* windowed or has its rotation flag set aborts before any driver call of the
\* commit is issued.
C7_AbortsBeforeAnyCall ==
    [][(last'.op = "commit" /\ last'.style = "LEGACY"
        /\ \E p \in Pipes : PrimaryUnfit(planes, p))
          => (last'.outcome = "abort" /\ calls' = <<>>)]_vars

\* C7 amended: a legacy commit in which the primary plane of pipe p is
\* windowed or has its rotation flag set never succeeds and issues neither the
\* set-CRTC call of that plane nor any later call: the calls it issues are for
\* earlier pipes or are CRTC property calls of pipe p.  It ends in an aborting
\* assertion unless an earlier step already ended it (a driver call that
\* returned an error, or a null output dereferenced).
C7_AbortsAtPrimary ==
    [][(last'.op = "commit" /\ last'.style = "LEGACY")
          => \A p \in Pipes : PrimaryUnfit(planes, p) =>
                /\ ~CommitSucceeded(last')
                /\ \A n \in 1 .. Len(calls') :
                      \/ calls'[n].pipe < p
                      \/ calls'[n].pipe = p /\ calls'[n].call = "CrtcSetProperty"
                /\ \/ last'.outcome = "abort"
                   \/ last'.outcome = "crash"
                   \/ last'.outcome = "ret" /\ last'.inner # 0]_vars

\* A legacy commit aborted at the windowed primary plane of pipe 1 after it
\* had issued the calls of pipe 0
C7_Witness ==
    /\ last.op = "commit"
    /\ last.style = "LEGACY"
    /\ last.outcome = "abort"
    /\ last.what = "primary_windowed"
    /\ PrimaryUnfit(planes, 1)
    /\ calls # <<>>
    /\ \A n \in 1 .. Len(calls) : calls[n].pipe = 0

\* C8: igt_output_set_pipe(output, P) leaves the pending mask of the output
\* {P}, or empty when P is PIPE_NONE, and mode_changed set on P and on the
\* pipe the output was pending on before the call; it changes no plane, no
\* flag of any other pipe, nothing but mode_changed on those two pipes, and no
\* other output.
C8_SetPipeEffect ==
    [][last'.op = "set_pipe" =>
         /\ outputs'[last'.output].pending_crtc_idx_mask
               = (IF last'.pipe = PIPE_NONE THEN {} ELSE {last'.pipe})
         /\ last'.pipe # PIPE_NONE => pipes'[last'.pipe].mode_changed
         /\ outputs[last'.output].pending_crtc_idx_mask # {}
               => pipes'[Min(outputs[last'.output].pending_crtc_idx_mask)].mode_changed
         /\ planes' = planes
         /\ \A p \in Pipes :
               /\ pipes'[p] = [pipes[p] EXCEPT !.mode_changed = pipes'[p].mode_changed]
               /\ (p # last'.pipe /\ {p} # outputs[last'.output].pending_crtc_idx_mask)
                     => pipes'[p] = pipes[p]
         /\ \A o \in Outputs \ {last'.output} : outputs'[o] = outputs[o]]_vars

\* An output moved from one pipe to another after a commit had cleared
\* mode_changed of the pipe it leaves
C8_Witness ==
    /\ last.op = "set_pipe"
    /\ last.old # PIPE_NONE
    /\ last.pipe # PIPE_NONE
    /\ last.old # last.pipe
    /\ pipes[last.old].mode_changed
    /\ pipes[last.pipe].mode_changed
    /\ \E p \in Pipes : pipes[p].mode_blob # 0

\* The flags a plane mutator sets
OwnFlags(op) ==
    IF op = "set_fb" THEN {"fb_changed", "size_changed"}
    ELSE IF op = "set_position" THEN {"position_changed"}
    ELSE IF op = "set_size" THEN {"size_changed"}
    ELSE {"rotation_changed"}

\* C9: a plane mutator sets its own flags on the plane it is called on
\* (igt_plane_set_fb: fb_changed and size_changed) and leaves every other flag
\* of that plane and every flag of the other planes, the pipes and the
\* outputs as it was.
C9_MutatorSetsOwnFlags ==
    [][last'.op \in {"set_fb", "set_position", "set_size", "set_rotation"} =>
         SetFlags(planes', pipes', outputs')
            = SetFlags(planes, pipes, outputs)
              \cup ({"plane"} \X {last'.plane} \X OwnFlags(last'.op))]_vars

\* igt_plane_set_size on a plane whose flags a commit had cleared
C9_Witness ==
    /\ last.op = "set_size"
    /\ planes[last.plane].size_changed
    /\ ~planes[last.plane].fb_changed
    /\ ~planes[last.plane].position_changed
    /\ ~planes[last.plane].rotation_changed

\* C10 as stated: after igt_plane_set_fb(plane, NULL) the destination origin,
\* the destination size and the source rectangle of the plane are all 0 and
\* fb_changed and size_changed are set.
C10_NullFbZeroesPlane ==
    (last.op = "set_fb" /\ last.fb = 0) =>
        /\ planes[last.plane].crtc_x = 0
        /\ planes[last.plane].crtc_y = 0
        /\ planes[last.plane].crtc_w = 0
        /\ planes[last.plane].crtc_h = 0
        /\ planes[last.plane].src_x = 0
        /\ planes[last.plane].src_y = 0
        /\ planes[last.plane].src_w = 0
        /\ planes[last.plane].src_h = 0
        /\ planes[last.plane].fb_changed
        /\ planes[last.plane].size_changed

\* C11 as stated: in every reachable state, every plane whose framebuffer is
\* null has an all-zero source rectangle and an all-zero destination rectangle.
C11_NullFbZeroRects ==
    \A id \in PlaneIds :
        planes[id].fb = NoFb =>
            /\ planes[id].src_x = 0 /\ planes[id].src_y = 0
            /\ planes[id].src_w = 0 /\ planes[id].src_h = 0
            /\ planes[id].crtc_x = 0 /\ planes[id].crtc_y = 0
            /\ planes[id].crtc_w = 0 /\ planes[id].crtc_h = 0

\* C12: a universal-plane commit that succeeded leaves mode_changed of every
\* pipe and pipe_changed of every output as they were before it; after a
\* legacy or atomic commit that succeeded (and was not TEST_ONLY) they are all
\* false.
C12_ModeFlagsByStyle ==
    [][CommitSucceeded(last') =>
         IF last'.style = "UNIVERSAL"
         THEN /\ \A p \in Pipes : pipes'[p].mode_changed = pipes[p].mode_changed
              /\ \A o \in Outputs : outputs'[o].pipe_changed = outputs[o].pipe_changed
         ELSE /\ \A p \in Pipes : ~pipes'[p].mode_changed
              /\ \A o \in Outputs : ~outputs'[o].pipe_changed]_vars

\* A universal-plane commit programmed a plane with a framebuffer and left
\* the mode flags set
C12_Witness ==
    /\ CommitSucceeded(last)
    /\ last.style = "UNIVERSAL"
    /\ \E n \in 1 .. Len(calls) : calls[n].call = "SetPlane" /\ calls[n].a.fb_id # 0
    /\ \E p \in Pipes : pipes[p].mode_changed
    /\ \E o \in Outputs : outputs[o].pipe_changed

\* The pipes the commit re-applied the mode of: those with a set-CRTC call
\* that succeeded
ModeApplied(log) ==
    {log[n].pipe : n \in {m \in 1 .. Len(log) : log[m].call = "SetCrtc" /\ log[m].ret = 0}}

\* C13 as stated: a legacy commit clears mode_changed of a pipe only when the
\* commit re-applied the mode of that pipe by a set-CRTC call; a commit that
\* only moved the cursor or found nothing to program leaves it set.
C13_LegacyKeepsModeChanged ==
    [][(last'.op = "commit" /\ last'.style = "LEGACY") =>
         \A p \in Pipes :
            (pipes[p].mode_changed /\ p \notin ModeApplied(calls'))
               => pipes'[p].mode_changed]_vars

\* C15 as stated, first part: from the return of igt_output_override_mode with
\* a mode, igt_output_get_mode returns that mode, also before any refresh or
\* commit has run.
C15_OverrideSeenAtOnce ==
    (last.op = "override_mode" /\ last.mode # "none")
        => igt_output_get_mode(outputs[last.output]) = last.mode

\* The operations that are mutators of the model
MutatorOps == {"set_pipe", "override_mode", "set_scaling_mode", "set_fb",
               "set_position", "set_size", "set_rotation", "set_background",
               "set_lut"}

\* C16 as stated: no mutator, the colour-management blob setters included,
\* issues a driver call that creates, destroys or changes driver-side state.
C16_MutatorsInMemoryOnly ==
    [][last'.op \in MutatorOps => (calls' = <<>> /\ UNCHANGED drv_vars)]_vars

\* C16 amended: no mutator changes what the driver has programmed for a
\* plane, a CRTC or a connector; every mutator but the colour-management blob
\* setters issues no driver call and leaves the property blobs alone; a blob
\* setter issues blob calls only: it destroys the blob the pipe held for that
\* kind and creates the new one in the driver at once, before any commit.
C16_OnlyBlobSettersCallDriver ==
    [][last'.op \in MutatorOps =>
         /\ UNCHANGED <<drv_plane, drv_crtc, drv_conn>>
         /\ last'.op # "set_lut" => (calls' = <<>> /\ blobs' = blobs)
         /\ last'.op = "set_lut" =>
              /\ \A n \in 1 .. Len(calls') :
                    calls'[n].call \in {"DestroyPropertyBlob", "CreatePropertyBlob"}
              /\ DOMAIN blobs' \ {pipes'[last'.pipe][BlobField(last'.kind)]}
                    = DOMAIN blobs \ {pipes[last'.pipe][BlobField(last'.kind)]}
              /\ \A b \in DOMAIN blobs \cap DOMAIN blobs' :
                    b # pipes'[last'.pipe][BlobField(last'.kind)] => blobs'[b] = blobs[b]]_vars

\* A blob setter replaced the blob the pipe held: one blob destroyed and one
\* created in the driver, with no commit
C16_Witness ==
    /\ last.op = "set_lut"
    /\ Len(calls) = 2
    /\ calls[1].call = "DestroyPropertyBlob"
    /\ calls[2].call = "CreatePropertyBlob"
    /\ pipes[last.pipe][BlobField(last.kind)] \in DOMAIN blobs

\* C17: a commit that follows, with no mutator call in between, a commit of
\* the same style that succeeded and was not TEST_ONLY sets no dirty flag and
\* issues no plane, cursor, CRTC or connector programming call: a legacy or
\* universal-plane commit issues no driver call at all, an atomic commit
\* submits a transaction that carries no property.
C17_SecondCommitIdle ==
    [][(CommitSucceeded(last) /\ last'.op = "commit" /\ last'.style = last.style)
          => /\ SetFlags(planes', pipes', outputs') \subseteq SetFlags(planes, pipes, outputs)
             /\ \A n \in 1 .. Len(calls') :
                   calls'[n].call = "AtomicCommit" /\ calls'[n].a.props = <<>>
             /\ last'.style # "ATOMIC" => calls' = <<>>]_vars

\* Two atomic commits in a row from the state igt_display_init leaves: the
\* first cleared every flag, the second submitted an empty transaction
C17_Witness ==
    /\ nops = 2
    /\ CommitSucceeded(last)
    /\ last.style = "ATOMIC"
    /\ Len(calls) = 1
    /\ calls[1].call = "AtomicCommit"
    /\ calls[1].a.props = <<>>
    /\ SetFlags(planes, pipes, outputs) = {}

\* C14 as stated: on one pipe, igt_output_get_plane gives a kind the slot it
\* gave it before and gives two different kinds two different slots; the
\* cursor kind gets slot n_planes - 1 and every other kind that gets a slot is
\* below n_planes.
C14_StableDistinctSlots ==
    (last.op = "get_plane" /\ last.outcome = "ret") =>
        /\ last.prev.pipe = last.pipe
              => (last.prev.kind = last.kind <=> last.prev.slot = last.slot)
        /\ last.kind = IGT_PLANE_CURSOR => last.slot = n_planes - 1
        /\ last.kind # IGT_PLANE_CURSOR => last.kind < n_planes

\* C18 as stated: after igt_display_fini no plane object, no connector
\* configuration object and no property blob created for a pipe stays alive.
C18_FiniReleasesAll ==
    last.op = "fini" =>
        /\ \A id \in PlaneIds : ~planes[id].drm_plane
        /\ \A o \in Outputs : outputs[o].config_objs = {}
        /\ DOMAIN blobs = {}

\* The data descriptors a session has open
DataFds(c) == {x \in c.fds : x[2] = "data"}

\* C19: on one CRC capture session of either backend, a start (that of
\* igt_pipe_crc_collect_crc included) disables the capture before it enables
\* it, so that the driver is never asked to enable a capture that is running;
\* the session never has more than one data descriptor open; a stop on a
\* session that is not capturing returns and leaves the session as it was; and
\* after igt_pipe_crc_free the session has no descriptor open.
C19_SessionDescriptors ==
    [][/\ last'.op \in {"crc_start", "crc_collect"} =>
             \A n \in 1 .. Len(calls') :
                calls'[n].call = "enable" =>
                   /\ ~calls'[n].was_capturing
                   /\ \E m \in 1 .. (n - 1) : calls'[m].call = "disable"
       /\ Cardinality(DataFds(crc')) <= 1
       /\ (last'.op = "crc_stop" /\ last'.repeated)
             => (last'.outcome = "ret" /\ crc' = crc)
       /\ last'.op = "crc_free" => crc'.fds = {}]_vars

\* igt_pipe_crc_start on a generic-backend session that was capturing: the
\* data descriptor was closed and a new one opened
C19_Witness ==
    /\ last.op = "crc_start"
    /\ last.outcome = "ret"
    /\ ~crc.is_legacy
    /\ calls[1].call = "disable"
    /\ calls[1].was_capturing
    /\ calls[2].call = "enable"
    /\ crc.capturing
    /\ Cardinality(DataFds(crc)) = 1

\* The reads of the sequence that give a line that parses
Parsed(reads) == {n \in 1 .. Len(reads) : reads[n] = "line"}

\* C20 as stated: igt_pipe_crc_get_crcs(n) returns a count between 0 and n,
\* stores only into the n records of the buffer it allocated, and counts no
\* read whose line did not parse.
C20_GetCrcsWithinN ==
    last.op = "crc_get_crcs" =>
        /\ 0 <= last.ret
        /\ last.ret <= last.n_crcs
        /\ last.stored \subseteq 0 .. (last.n_crcs - 1)
        /\ last.ret <= Cardinality(Parsed(last.reads))

\* C21: igt_assert_crc_equal(a, b) passes exactly when a and b hold the same
\* number of words and every word is equal
C21_PassesIffSameWords ==
    last.op = "assert_crc_equal" =>
        ((last.outcome = "ret") <=>
            (/\ last.a.n_words = last.b.n_words
             /\ \A i \in 1 .. last.a.n_words : last.a.crc[i] = last.b.crc[i]))

\* C22: a deadline that expires in a subtest is reported as TIMEOUT, and the
\* exit code of a run whose first failure it is is the timeout code
C22_TimeoutReportedDistinctly ==
    last.op = "alarm" /\ last.pre.in_subtest =>
        /\ last.printed = "TIMEOUT"
        /\ ~last.pre.failed_one => core.igt_exitcode = "IGT_EXIT_TIMEOUT"

\* C23: the alarm is delivered only when the deadline of the latest
\* igt_set_timeout is due and igt_reset_timeout has not been called since;
\* no deadline armed before a reset or replaced by a later igt_set_timeout
\* expires
C23_OnlyLatestDeadlineFires ==
    /\ last.op = "alarm" => last.pre.deadline = 1 /\ ~last.pre.cancelled
    /\ last.op = "tick" => core.status = "running" /\ last.printed = "none"
    /\ last.op = "reset_timeout" => core.alarm = 0

\* Time passes after igt_reset_timeout cancelled a pending deadline
C23_Witness ==
    last.op = "tick" /\ last.pre.cancelled /\ core.status = "running"

C24_TransientReadRetried ==
    last.op = "read" /\ last.ret \in TransientErrors =>
        /\ test.pc = "read"
        /\ test.num_events = last.pre.num_events
        /\ core.in_subtest

\* C28: commit_display goes on only after read returned one flip-complete
\* record for every pipe of the event mask, with the deadline reset; while it
\* waits the deadline is armed, and the deadline that expires ends the test
C28_ExactlyExpectedEvents ==
    /\ test.func = "commit_display" /\ test.pc = "done" =>
            /\ test.nread = hweight32(test.event_mask)
            /\ test.flips_only
            /\ core.alarm = 0
    /\ test.func = "commit_display" /\ test.pc = "read" => core.alarm > 0
    /\ test.func = "commit_display" /\ last.op = "alarm" =>
            test.pc = "failed" /\ ~core.in_subtest

\* commit_display is through after it read the event of each of the pipes
C28_Witness ==
    /\ test.func = "commit_display" /\ test.pc = "done"
    /\ test.nread = n_pipes
    /\ last.op = "read"

\* C29: flip_vs_cursor goes past the cursor updates only when the vblank
\* counter is still vblank_start (modes legacy and atomic) or at most
\* vblank_start + 1 (other modes), and ends only when the counter is
\* vblank_start + 1 after the read of the event
C29_CursorWithinVblank ==
    test.func = "flip_vs_cursor" =>
        /\ test.pc \in {"read", "check_end", "done"} =>
                IF test.mode \in {"legacy", "atomic"}
                THEN test.seen = test.vblank_start
                ELSE test.seen <= test.vblank_start + 1
        /\ test.pc = "done" => test.seen_end = test.vblank_start + 1

\* flip_vs_cursor ends in a mode whose cursor update took a vblank
C29_Witness ==
    /\ test.func = "flip_vs_cursor" /\ test.pc = "done"
    /\ test.seen = test.vblank_start + 1

\* C25: at most one atomic transaction issued through the driver handle of
\* the Display is in flight
C25_OneAtomicInFlight ==
    test.func = "two_screens_cursor_vs_flip" =>
        Cardinality({req \in test.inflight :
                        req.kind = "atomic" /\ req.fd = test.display.drm_fd}) <= 1

\* C26: a driver call of the forked child goes through a descriptor the child
\* opened, and no step of the child changes the parent's display
C26_ChildOwnHandle ==
    test.func = "two_screens_cursor_vs_flip" /\ last.by = "child" =>
        /\ last.op = "call" => last.req.fd = "child"
        /\ test.display = last.pre.display

\* C30: the properties of each kind of object are enumerated at most once, a
\* refresh leaves the table of the connector as it was, and a name the
\* driver does not list maps to 0
C30_PropsQueriedOnce ==
    test.func = "props" =>
        /\ \A kind \in {"plane", "crtc", "connector"} : test.fills[kind] <= 1
        /\ last.op = "igt_output_refresh" =>
               test.atomic_props_connector = last.pre.atomic_props_connector
        /\ \A n \in igt_connector_prop_names \ test.listed :
               test.atomic_props_connector[n] = 0

\* C31: a legacy or universal-plane commit in which every driver call
\* returned 0 makes igt_display_try_commit2 return 0 and leaves, when
\* igt_display_commit2 returns, no dirty flag set that the style clears
C31_ZeroReturnsSucceed ==
    (/\ last.op = "commit"
     /\ last.style \in {"LEGACY", "UNIVERSAL"}
     /\ last.outcome = "ret"
     /\ \A n \in 1 .. Len(calls) : calls[n].ret = 0)
    => /\ last.entry = "try_commit2" => last.ret = 0
       /\ last.entry = "commit2" =>
             display_commit_changed(planes, pipes, outputs, last.style) =
                 [planes |-> planes, pipes |-> pipes, outputs |-> outputs]

\* C32: after init, on every pipe the slot igt_pipe_get_plane returns for the
\* cursor kind is flagged cursor, slot 0 is flagged primary, and the slots
\* in between hold the overlays
C32_CursorLastPrimaryFirst ==
    (test.func = "igt_display_init" /\ Len(test.pipes) = n_pipes) =>
        \A n \in 1 .. n_pipes :
            LET pp == test.pipes[n]
                c == igt_pipe_get_plane_on(pp.n_planes, IGT_PLANE_CURSOR).idx
            IN  /\ pp.planes[c].is_cursor
                /\ pp.planes[0].is_primary
                /\ \A i \in 1 .. c - 1 :
                      /\ pp.planes[i].drm_plane
                      /\ ~pp.planes[i].is_primary
                      /\ ~pp.planes[i].is_cursor
                /\ c = pp.overlays + 1

\* C33: after the refresh of a commit every output resolves to its pending
\* pipe, or to none without one, no two outputs resolve to one pipe,
\* pipes_in_use is the set of resolved pipes, and the atomic request sets a
\* pipe active exactly when a connector is given its CRTC
C33_ResolvedIsPending ==
    (test.func = "route" /\ test.pc = "committed") =>
        /\ \A o \in Outputs :
              test.outputs[o].pipe =
                  IF test.outputs[o].pending_crtc_idx_mask = {} THEN PIPE_NONE
                  ELSE ffs_minus_1(test.outputs[o].pending_crtc_idx_mask)
        /\ \A a \in Outputs : \A b \in Outputs :
              (a # b /\ test.outputs[a].pipe # PIPE_NONE)
                  => test.outputs[a].pipe # test.outputs[b].pipe
        /\ test.pipes_in_use = {test.outputs[o].pipe : o \in Outputs} \ {PIPE_NONE}
        /\ \A p \in Pipes :
              p \in test.request.active <=> \E o \in Outputs : test.request.crtc[o] = p

\* C34: on a display that is not atomic a commit of atomic style issues no
\* driver call, leaves every dirty flag and blob as it is, returns -1 from
\* the try variants and aborts in the other variants
C34_NoAtomicWithoutCap ==
    [][(~is_atomic /\ last'.op = "commit" /\ last'.style = "ATOMIC") =>
          /\ calls' = <<>>
          /\ planes' = planes
          /\ pipes' = pipes
          /\ blobs' = blobs
          /\ SetFlags(planes', pipes', outputs') = SetFlags(planes, pipes, outputs)
          /\ UNCHANGED drv_vars
          /\ IF last'.what = "refresh" THEN last'.outcome = "abort"
             ELSE IF last'.entry \in {"try_commit2", "try_commit_atomic"}
             THEN last'.outcome = "ret" /\ last'.ret = -1
             ELSE last'.outcome = "abort"]_vars

\* A try variant returned -1 on a display that is not atomic, with a pipe
\* routed, a blob created and dirty flags set
C34_Witness ==
    /\ ~is_atomic
    /\ last.op = "commit" /\ last.style = "ATOMIC"
    /\ last.entry = "try_commit_atomic"
    /\ last.outcome = "ret" /\ last.ret = -1
    /\ \E o \in Outputs : outputs[o].pending_crtc_idx_mask # {} /\ outputs[o].pipe_changed
    /\ \E p \in Pipes : pipes[p].color_mgmt_changed

\* C35: when the search ends, the size in the plane parameters and of the
\* sprite framebuffer is the size the function reports, and the probe
\* accepted that size in that format
C35_RecordedSizeAccepted ==
    (test.func = "setup_parms" /\ test.pc = "done") =>
        /\ test.parms = <<test.sprite_width, test.sprite_height>>
        /\ test.sprite_fb = <<test.sprite_width, test.sprite_height, test.alpha>>
        /\ test.sprite_fb \in test.accepted

\* C36: the search ends for every sequence of answers, with a size or in the
\* assertion, it restarts at most once, and it aborts only when the cursor
\* size was rejected without alpha
C36_SearchTerminates ==
    /\ (test.func = "setup_parms") ~> (test.func = "setup_parms" /\ test.pc \in {"done", "aborted"})
    /\ [](test.func = "setup_parms" =>
            /\ test.restarts <= 1
            /\ test.sprite_width <= test.hdisplay
            /\ test.sprite_height <= test.vdisplay
            /\ test.pc = "aborted" =>
                  /\ ~test.alpha
                  /\ <<test.cursor_width, test.cursor_height, FALSE>>
                         \in test.probed \ test.accepted)

\* The search ended with a size behind a restart without alpha and a
\* rejected larger size
C36_Witness ==
    /\ test.func = "setup_parms" /\ test.pc = "done"
    /\ test.restarts = 1
    /\ test.sprite_width > test.cursor_width
    /\ test.probed \ test.accepted # {}
    /\ Cardinality(test.probed) >= 4

\* C37: behind test_grab_crc the reference checksum is the one captured from
\* the solid-colour frame, and the comparison of an iteration fails when the
\* composed frame has another checksum
C37_ReferenceIsCaptured ==
    (test.func = "test_atomic_plane_position_with_output" /\ test.pc # "grab") =>
        /\ test.reference_crc = test.solid
        /\ (last.op = "compare" /\ last.frame # test.solid) => last.outcome = "abort"

\* C38: when a subtest ends in a failed assertion or a skip, no alarm that
\* igt_set_timeout armed is left pending, and an alarm never expires in a
\* block other than a subtest with a deadline of its own
C38_DeadlineDisarmedAtEnd ==
    /\ (last.op \in {"fail", "skip"} /\ last.pre.in_subtest) => core.alarm = 0
    /\ last.op = "alarm" => (last.pre.in_subtest /\ last.pre.deadline > 0)

\* The children that failed, in the order wait() returned them
FailedReaped(t) == SelectSeq(t.reaped, StatusFails)

\* C39: igt_waitchildren ends only when every child forked since the last
\* wait is reaped, with the child count 0; it fails exactly when a child
\* failed, with the code of the first such child, every other child that
\* still ran being killed; and it ends whenever the children end
C39_WaitReapsAll ==
    /\ [][(last'.op = "waited") =>
            /\ \A c \in DOMAIN test.children : test.children[c].state = "reaped"
            /\ Len(test.reaped) = Len(test.children)
            /\ test'.num_test_children = 0
            /\ IF FailedReaped(test) = <<>>
               THEN test'.pc = "body" /\ test'.children = <<>>
               ELSE /\ test'.pc = "failed"
                    /\ test'.exitcode = StatusErr(FailedReaped(test)[1])]_vars
    /\ [](test.func = "igt_waitchildren" /\ test.pc = "wait" /\ test.err # 0
            => \A c \in DOMAIN test.children : test.children[c].state # "running")
    /\ (test.func = "igt_waitchildren" /\ test.pc = "wait")
          ~> (test.func = "igt_waitchildren" /\ test.pc \in {"body", "failed"})

\* The wait failed with the code of a child that died by a signal, behind a
\* child that had exited with 0 and with another child killed
C39_Witness ==
    /\ test.func = "igt_waitchildren" /\ test.pc = "failed"
    /\ test.exitcode = 128 + SIGABRT
    /\ Len(test.reaped) = 2
    /\ test.reaped[2] = Killed

====
